---- MODULE Spec2Model ----
(***************************************************************************)
(* Model of the run orchestrator of video-metadata-tagger:                  *)
(*   core/run.py                 prepare_run_context, select_run_files,     *)
(*                               process_one_file, run_files, finalize_run, *)
(*                               run                                        *)
(*   core/services/run_artifacts.py  manifest, run directories, retention   *)
(*   core/services/file_selection.py select_files                           *)
(*   ffmpeg/writer.py, ffmpeg/backups.py, core/writers/*  the tag writers   *)
(* One run of the program is modelled from its start to its exit.  The      *)
(* collaborators (file system, catalog, external tools) answer              *)
(* nondeterministically; every answer the code distinguishes is a value of  *)
(* the environment record drawn by the step that consults it.               *)
(***************************************************************************)
EXTENDS Integers, Sequences, FiniteSets, TLC

VARIABLES
    cfg,          \* options + configuration of this run (fixed at start)
    dirs,         \* run directories under write.backup_dir: name -> [exists, manifest]
    pc,           \* position of run(): start, select, setup, pass1, pass2, final, done, crashed
    files,        \* the list select_run_files returned
    idx,          \* 1-based position of the loop of the current pass
    deferred,     \* run_files.deferred: positions (in files) queued for pass 2
    ok_count,
    skip_count,
    fail_count,
    exit_code,    \* process exit code, -1 while the process is running
    run_dirs,     \* RunDirs: run_backup_dir / run_manifest_path (0 is None)
    attempts,     \* history: one entry per call of process_one_file
    records_written, \* history: number of calls of write_manifest_record
    call          \* one call of a library function: [op, args, out, done]

\* the state of a run
run_vars == <<cfg, dirs, pc, files, idx, deferred, ok_count, skip_count, fail_count,
              exit_code, run_dirs, attempts, records_written>>

vars == <<cfg, dirs, pc, files, idx, deferred, ok_count, skip_count, fail_count,
          exit_code, run_dirs, attempts, records_written, call>>

---------------------------------------------------------------------------
(* Bounds *)

\* longest file list a scan yields
MaxFiles == 2
\* longest manifest found on disk when the run starts
MaxPrior == 2
\* number of distinct run-directory names (timestamps) under backup_dir
MaxDirs == 2
\* largest retention limit write.max_logs
MaxLogs == 2

---------------------------------------------------------------------------
(* Files *)

Paths == {"bonus.m4v", "a.m4v", "b.mp4"}

\* Path.suffix.lower()
suffix(p) == IF p = "b.mp4" THEN ".mp4" ELSE IF p = "" THEN "" ELSE ".m4v"

\* is_extras_title(clean_filename_for_search(path.stem)): a title token is in _EXTRAS_TOKENS
is_extras_title(p) == p = "bonus.m4v"

RECURSIVE SeqsUpTo(_, _)
SeqsUpTo(S, n) ==
    IF n = 0 THEN {<<>>}
    ELSE LET shorter == SeqsUpTo(S, n - 1)
         IN  shorter \cup {Append(s, x) : s \in {t \in shorter : Len(t) = n - 1}, x \in S}

\* the order in which root.rglob("*") meets the files of the library
WalkOrder == <<"a.m4v", "bonus.m4v", "b.mp4">>

WalkIndex(p) == CHOOSE i \in 1..Len(WalkOrder) : WalkOrder[i] = p

\* what find_movie_files can return: files of the library, each once, in
\* the order of the walk
ScanLists ==
    {s \in SeqsUpTo(Paths, MaxFiles) :
        \A i, j \in 1..Len(s) : i < j => WalkIndex(s[i]) < WalkIndex(s[j])}

---------------------------------------------------------------------------
(* Manifest lines *)

\* one line of manifest.jsonl.  kind: "rec" a JSON object, "blank" an empty
\* line, "notjson" text json.loads rejects (also a truncated record),
\* "nonobject" JSON that is not an object (a list, a string, a number, null)
Line(k, p, s, r) == [kind |-> k, path |-> p, status |-> s, reason |-> r]

\* variant: the line is cut short, text json.loads rejects
Rec_truncated(p, s, r) == Line("notjson", p, s, r)

\* json.dumps(record) + "\n": one whole line holding a JSON object
Rec(p, s, r) == Line("rec", p, s, r)

PriorLines ==
    { Rec("a.m4v", "failed", "prior"), Rec("b.mp4", "failed", "prior"),
      Rec("a.m4v", "ok", "prior"), Rec("b.mp4", "skipped", "prior"),
      Rec("", "failed", "prior"),
      Line("blank", "", "", ""), Line("notjson", "", "", ""), Line("nonobject", "", "", "") }

PriorManifests == SeqsUpTo(PriorLines, MaxPrior)

DirNames == 1..MaxDirs

NoDir == [exists |-> FALSE, manifest |-> <<>>]

---------------------------------------------------------------------------
(* Options and configuration *)

ExtSets == {{}, {".m4v"}, {".m4v", ".mp4"}}

\* exts: scan.extensions after normalize_extensions; mode: which of
\* --rerun-failed / --file / --root selects the files; scan: what the
\* scanner finds (or the one --file); rerun_src: the run directory whose
\* manifest --rerun-failed names; restore_backup: --restore-backup absent
\* ("none"), an existing directory ("present") or a missing one ("absent");
\* now: the timestamp create_run_backup_dir formats into the directory name
DefaultCfg ==
    [exts |-> {".m4v", ".mp4"}, mode |-> "scan", scan |-> <<>>, rerun_src |-> 0,
     api_key |-> TRUE, restore_backup |-> "none", test_mode |-> FALSE,
     dry_run |-> FALSE, write_enabled |-> TRUE, only_exts |-> {},
     max_logs |-> MaxLogs, now |-> 1]

NoDirs == [n \in DirNames |-> NoDir]

\* runs over a scanned listing, in every write mode
RunCfgs ==
    { [DefaultCfg EXCEPT !.scan = s, !.restore_backup = r, !.test_mode = t,
                         !.dry_run = d, !.write_enabled = w] :
        s \in ScanLists, r \in {"none", "present"}, t \in BOOLEAN, d \in BOOLEAN,
        w \in BOOLEAN }

\* start-up validation: extensions, --file, credential, restore directory
StartupCfgs ==
    { [DefaultCfg EXCEPT !.exts = x, !.mode = m, !.scan = s, !.api_key = k,
                         !.restore_backup = r, !.test_mode = t] :
        x \in ExtSets, m \in {"scan", "file"},
        s \in {<<>>, <<"a.m4v">>, <<"b.mp4">>}, k \in BOOLEAN,
        r \in {"none", "present", "absent"}, t \in BOOLEAN }

\* reruns of the failed files of a manifest found on disk, with
\* write.enabled off as in tests/unit/test_rerun_failed.py: every manifest
\* content, read from the only run directory present
RerunSelectCfgs ==
    { [DefaultCfg EXCEPT !.mode = "rerun", !.rerun_src = 1, !.only_exts = o,
                         !.now = MaxDirs, !.write_enabled = FALSE] :
        o \in {{}, {".mp4"}} }

RerunSelectDirs ==
    { [n \in DirNames |-> IF n = 1 THEN [exists |-> TRUE, manifest |-> m] ELSE NoDir] :
        m \in PriorManifests }

\* reruns among older and newer run directories, under every retention limit
RerunRetentionCfgs ==
    { [DefaultCfg EXCEPT !.mode = "rerun", !.rerun_src = src, !.max_logs = ml,
                         !.now = n, !.write_enabled = FALSE] :
        src \in DirNames, ml \in 1..MaxLogs, n \in DirNames }

\* the run directories such a rerun finds: the one holding the manifest it
\* names, and possibly other runs with one record each
RerunRetentionDirs(src) ==
    { [n \in DirNames |->
         IF n = src THEN [exists |-> TRUE, manifest |-> m]
         ELSE IF n \in others THEN [exists |-> TRUE, manifest |-> <<Rec("a.m4v", "ok", "prior")>>]
         ELSE NoDir] :
        m \in {<<Rec("a.m4v", "failed", "prior")>>,
               <<Rec("a.m4v", "ok", "prior"), Rec("b.mp4", "failed", "prior")>>},
        others \in SUBSET (DirNames \ {src}) }

\* main() rejects a --file that does not exist, and the scanner only lists
\* files whose suffix is configured
CfgOk(c) ==
    /\ c.mode = "file" => Len(c.scan) = 1
    /\ c.mode = "scan" => \A i \in 1..Len(c.scan) : suffix(c.scan[i]) \in c.exts

---------------------------------------------------------------------------
(* core/services/run_artifacts.py *)

RECURSIVE load_failed_loop(_, _, _)
\* the loop of load_failed_from_manifest over the lines from position i
load_failed_loop(lines, i, failed) ==
    IF i > Len(lines) THEN [raised |-> FALSE, failed |-> failed]
    ELSE LET line == lines[i] IN
         IF line.kind = "blank" THEN load_failed_loop(lines, i + 1, failed)
         ELSE IF line.kind = "notjson" THEN load_failed_loop(lines, i + 1, failed)
         \* record.get on a list, string, number or None: AttributeError, not caught
         ELSE IF line.kind = "nonobject" THEN [raised |-> TRUE, failed |-> <<>>]
         ELSE IF line.status # "failed" THEN load_failed_loop(lines, i + 1, failed)
         ELSE IF line.path = "" THEN load_failed_loop(lines, i + 1, failed)
         ELSE load_failed_loop(lines, i + 1, Append(failed, line.path))

\* variant: the status of a record is not consulted
load_failed_from_manifest_any_status(d) ==
    IF ~d.exists THEN [raised |-> FALSE, failed |-> <<>>]
    ELSE LET recs == SelectSeq(d.manifest, LAMBDA l : l.kind = "rec" /\ l.path # "")
         IN  [raised |-> FALSE, failed |-> [i \in 1..Len(recs) |-> recs[i].path]]

\* a manifest that does not exist reads as no lines
load_failed_from_manifest(d) ==
    IF ~d.exists THEN [raised |-> FALSE, failed |-> <<>>]
    ELSE load_failed_loop(d.manifest, 1, <<>>)

\* variant: the file opened in mode "w" instead of "a"
write_manifest_record_overwrite(ds, name, record) ==
    [ds EXCEPT ![name] = [exists |-> TRUE, manifest |-> <<record>>]]

\* mkdir(parents=True), open("a"), one write
write_manifest_record(ds, name, record) ==
    [ds EXCEPT ![name] = [exists |-> TRUE, manifest |-> Append(@.manifest, record)]]

\* the directories sorted by name, the first `excess` of them removed
cleanup_run_dirs(ds, max_logs) ==
    LET existing == {n \in DirNames : ds[n].exists}
        excess == Cardinality(existing) - max_logs
        doomed == {n \in existing : Cardinality({m \in existing : m < n}) < excess}
    IN  IF max_logs <= 0 \/ excess <= 0 THEN ds
        ELSE [n \in DirNames |-> IF n \in doomed THEN NoDir ELSE ds[n]]

\* create_run_backup_dir: mkdir(exist_ok=True) of the directory named by the clock
create_run_backup_dir(ds, now) == [ds EXCEPT ![now].exists = TRUE]

---------------------------------------------------------------------------
(* core/services/file_selection.py *)

filter_only_exts(fs, only_exts) ==
    IF only_exts = {} THEN fs ELSE SelectSeq(fs, LAMBDA p : suffix(p) \in only_exts)

\* [raised, files]; the branch "No root directory configured" cannot be
\* taken: main() rejects a scan without an existing root
select_files(c, ds) ==
    IF c.mode = "rerun" THEN
        LET loaded == load_failed_from_manifest(ds[c.rerun_src]) IN
        IF loaded.raised THEN [raised |-> TRUE, files |-> <<>>]
        ELSE IF loaded.failed = <<>> THEN [raised |-> FALSE, files |-> <<>>]
        ELSE [raised |-> FALSE, files |-> filter_only_exts(loaded.failed, c.only_exts)]
    ELSE [raised |-> FALSE, files |-> filter_only_exts(c.scan, c.only_exts)]

---------------------------------------------------------------------------
(* The collaborators' answers during one call of process_one_file *)

\* stat: path.stat() succeeds, raises FileNotFoundError ("missing") or
\*   another OSError such as PermissionError ("oserror");
\* rs: ffmpeg_restore_metadata returns True ("ok"), returns False ("fail":
\*   the snapshot is missing or ffmpeg fails) or raises ("exc": mkstemp
\*   fails in the file's directory);
\* drm: inspector.has_drm_stream; search: the catalog search and details
\*   requests find a match, find none, raise requests.HTTPError ("http") or
\*   raise another exception ("exc");
\* ffT, director, itT, cover: the mapping plan produced container tags, a
\*   director tag among them, iTunes tags, an artwork file;
\* existing: "all" when filter_existing_tags removes every container tag
\*   (override_existing is off and the file already has them all);
\* space: FALSE when backup_original is on and the backup volume is full;
\* ff, dir, it: the results of the three writers outside test/dry-run mode
EnvFields ==
    [stat : {"ok", "missing", "oserror"}, rs : {"ok", "fail", "exc"}, drm : BOOLEAN,
     search : {"match", "none", "http", "exc"},
     ffT : BOOLEAN, director : BOOLEAN, itT : BOOLEAN, cover : BOOLEAN,
     existing : {"keep", "all"}, space : BOOLEAN,
     ff : {"ok", "fail", "busy"}, dir : BOOLEAN, it : BOOLEAN]

HappyEnv ==
    [stat |-> "ok", rs |-> "ok", drm |-> FALSE, search |-> "match",
     ffT |-> TRUE, director |-> FALSE, itT |-> FALSE, cover |-> FALSE,
     existing |-> "keep", space |-> TRUE, ff |-> "ok", dir |-> TRUE, it |-> TRUE]

\* e agrees with HappyEnv on the fields named in S
Rest(e, S) == \A f \in S : e[f] = HappyEnv[f]

\* An answer that ends the attempt leaves the later questions unasked: only
\* one representative of the answers never consulted is kept
Canonical(e) ==
    /\ e.director => e.ffT
    /\ e.stat # "ok" => Rest(e, {"rs", "drm", "search", "ffT", "director", "itT", "cover",
                                 "existing", "space", "ff", "dir", "it"})
    /\ e.rs # "ok" => Rest(e, {"drm", "search", "ffT", "director", "itT", "cover",
                         "existing", "space", "ff", "dir", "it"})
    /\ e.drm => Rest(e, {"search", "ffT", "director", "itT", "cover",
                         "existing", "space", "ff", "dir", "it"})
    /\ e.search # "match" => Rest(e, {"ffT", "director", "itT", "cover",
                                      "existing", "space", "ff", "dir", "it"})
    /\ (~e.ffT /\ ~e.itT) => Rest(e, {"cover", "existing", "space", "ff", "dir", "it"})
    /\ ~e.ffT => e.existing = "keep"
    /\ (e.existing = "all" /\ ~e.itT) => Rest(e, {"space", "ff", "dir", "it"})
    /\ ~e.space => Rest(e, {"ff", "dir", "it"})
    /\ e.ff # "ok" => Rest(e, {"dir", "it"})
    /\ ~e.dir => Rest(e, {"it"})

Envs == {e \in EnvFields : Canonical(e)}

---------------------------------------------------------------------------
(* The writers: ffmpeg/writer.py, core/writers/*.py, ffmpeg/backups.py *)

\* ffmpeg_write_metadata called with tags or artwork: "ok" is True, "fail"
\* is False, "busy" is ResourceBusyError.  Test mode and dry-run return
\* True before the output is produced.
ffmpeg_write_metadata(c, e) ==
    IF c.test_mode THEN "ok" ELSE IF c.dry_run THEN "ok" ELSE e.ff

write_standard_director(c, e) ==
    IF c.test_mode THEN TRUE ELSE IF c.dry_run THEN TRUE ELSE e.dir

write_itunes_metadata(c, e) ==
    IF c.test_mode THEN TRUE ELSE IF c.dry_run THEN TRUE ELSE e.it

\* a missing snapshot returns False before the test-mode and dry-run
\* returns, and mkstemp runs before them, outside the function's try
ffmpeg_restore_metadata(c, e) ==
    IF e.rs = "fail" THEN "fail"
    ELSE IF e.rs = "exc" THEN "exc"
    ELSE IF c.test_mode THEN "ok" ELSE IF c.dry_run THEN "ok" ELSE e.rs

\* How each writer changes the destination file outside test and dry-run
\* mode: "tmp_rename" writes a mkstemp file in the destination's directory
\* and renames it over the original, "in_place" rewrites the original.
\* ffmpeg_write_metadata: mkstemp(dir=input_path.parent), replace_with_retries
ffmpeg_write_metadata_edit == "tmp_rename"

\* ffmpeg_restore_metadata: mkstemp(dir=input_path.parent), tmp_path.replace
ffmpeg_restore_metadata_edit == "tmp_rename"

\* write_standard_director: MP4(str(input_path)) ... mp4.save()
write_standard_director_edit == "in_place"

\* write_itunes_metadata: write_itunmovi_atom saves through mutagen,
\* mp4tags_write_metadata runs mp4tags on str(input_path)
write_itunes_metadata_edit == "in_place"

\* the way the writer recorded under name w edits the file
edit_method(w) ==
    IF w = "ffmpeg" THEN ffmpeg_write_metadata_edit
    ELSE IF w = "restore" THEN ffmpeg_restore_metadata_edit
    ELSE IF w = "director" THEN write_standard_director_edit
    ELSE write_itunes_metadata_edit

---------------------------------------------------------------------------
(* core/run.py: process_one_file *)

\* What one call does: the status it returns ("raised" when an exception
\* leaves the function), the reason of its manifest record, the writers it
\* invoked, in order, each with its result ("ok" True, "fail" False, "busy"
\* ResourceBusyError), whether a writer raised ResourceBusyError, and
\* whether it reached a write_manifest_record call
Res(st, rn, ws, b, rec) ==
    [status |-> st, reason |-> rn, writers |-> ws, busy |-> b, record |-> rec]

Bool(b) == IF b THEN "ok" ELSE "fail"

\* variant: the retry branch returns without write_manifest_record
resource_busy_handler_unrecorded(is_retry, ws) ==
    IF is_retry THEN Res("failed", "resource_busy", ws, TRUE, FALSE)
    ELSE Res("deferred", "resource_busy", ws, TRUE, FALSE)

\* except ResourceBusyError (lines 872-892)
resource_busy_handler(is_retry, ws) ==
    IF is_retry THEN Res("failed", "resource_busy", ws, TRUE, TRUE)
    ELSE Res("deferred", "resource_busy", ws, TRUE, FALSE)

\* the extras/bonus short-circuit (lines 291-371), which runs before the try block
extras_path(c, rd, e) ==
    IF ~c.write_enabled THEN Res("skipped", "extras_write_disabled", <<>>, FALSE, TRUE)
    \* backup_original_path(None, ...) evaluates None / str: TypeError
    ELSE IF rd.run_backup_dir = 0 THEN Res("raised", "TypeError", <<>>, FALSE, FALSE)
    ELSE LET wrote == ffmpeg_write_metadata(c, e) IN
         IF wrote = "busy"
             THEN Res("raised", "ResourceBusyError", <<<<"ffmpeg", wrote>>>>, TRUE, FALSE)
         ELSE IF wrote = "ok" THEN Res("ok", "extras_updated", <<<<"ffmpeg", wrote>>>>, FALSE, TRUE)
         ELSE Res("failed", "extras_failed", <<<<"ffmpeg", wrote>>>>, FALSE, TRUE)

\* restore mode (lines 381-413)
restore_path(c, e) ==
    LET restored == ffmpeg_restore_metadata(c, e) IN
    IF restored = "ok" THEN Res("ok", "restored", <<<<"restore", restored>>>>, FALSE, TRUE)
    \* except Exception (lines 910-926)
    ELSE IF restored = "exc" THEN Res("failed", "error", <<<<"restore", restored>>>>, FALSE, TRUE)
    ELSE Res("failed", "restore_failed", <<<<"restore", restored>>>>, FALSE, TRUE)

\* variant: every writer the tags call for is invoked, whatever the earlier
\* writers returned
write_step_no_short_circuit(c, e, is_retry, ffT, director, itT, cover) ==
    LET callFf  == ffT \/ cover
        r1      == IF callFf THEN ffmpeg_write_metadata(c, e) ELSE "ok"
        w1      == r1 = "ok"
        ws1     == IF callFf THEN <<<<"ffmpeg", r1>>>> ELSE <<>>
        r2      == write_standard_director(c, e)
        w2      == IF director THEN (w1 /\ r2) ELSE w1
        ws2     == IF director THEN Append(ws1, <<"director", Bool(r2)>>) ELSE ws1
        r3      == write_itunes_metadata(c, e)
        w3      == IF itT THEN (w2 /\ r3) ELSE w2
        ws3     == IF itT THEN Append(ws2, <<"itunes", Bool(r3)>>) ELSE ws2
        wrote   == IF ~ffT /\ ~itT /\ ~cover THEN FALSE ELSE w3
    IN  IF r1 = "busy" THEN resource_busy_handler(is_retry, ws1)
        ELSE IF wrote THEN Res("ok", "updated", ws3, FALSE, TRUE)
        ELSE Res("failed", "ffmpeg_failed", ws3, FALSE, TRUE)

\* the writes of the normal path (lines 765-855); ffT, director, itT, cover
\* describe tags_to_write, itunes_tags and cover_art_path after filtering.
\* "wrote = wrote and writer(...)" calls the writer only while wrote is True.
write_step(c, e, is_retry, ffT, director, itT, cover) ==
    LET callFf  == ffT \/ cover
        r1      == IF callFf THEN ffmpeg_write_metadata(c, e) ELSE "ok"
        w1      == r1 = "ok"
        ws1     == IF callFf THEN <<<<"ffmpeg", r1>>>> ELSE <<>>
        callDir == director /\ w1
        r2      == write_standard_director(c, e)
        w2      == IF director THEN (w1 /\ r2) ELSE w1
        ws2     == IF callDir THEN Append(ws1, <<"director", Bool(r2)>>) ELSE ws1
        callIt  == itT /\ w2
        r3      == write_itunes_metadata(c, e)
        w3      == IF itT THEN (w2 /\ r3) ELSE w2
        ws3     == IF callIt THEN Append(ws2, <<"itunes", Bool(r3)>>) ELSE ws2
        wrote   == IF ~ffT /\ ~itT /\ ~cover THEN FALSE ELSE w3
    IN  IF r1 = "busy" THEN resource_busy_handler(is_retry, ws1)
        ELSE IF wrote THEN Res("ok", "updated", ws3, FALSE, TRUE)
        ELSE Res("failed", "ffmpeg_failed", ws3, FALSE, TRUE)

\* lines 415-870 with the handlers of lines 893-926
normal_path(c, rd, e, is_retry) ==
    IF c.write_enabled /\ ~c.test_mode /\ e.drm
        THEN Res("skipped", "drm_protected", <<>>, FALSE, TRUE)
    ELSE IF e.search = "http" THEN Res("failed", "tmdb_http_error", <<>>, FALSE, TRUE)
    ELSE IF e.search = "exc" THEN Res("failed", "error", <<>>, FALSE, TRUE)
    ELSE IF e.search = "none" THEN Res("skipped", "no_match", <<>>, FALSE, TRUE)
    ELSE IF ~e.ffT /\ ~e.itT THEN Res("skipped", "no_tags", <<>>, FALSE, TRUE)
    ELSE LET ffT      == e.ffT /\ e.existing # "all"
             director == e.director /\ e.existing # "all"
         IN  IF ~ffT /\ ~e.itT THEN Res("skipped", "existing_tags", <<>>, FALSE, TRUE)
             ELSE IF ~c.write_enabled THEN Res("ok", "write_disabled", <<>>, FALSE, TRUE)
             ELSE IF rd.run_backup_dir # 0 /\ ~c.test_mode /\ ~e.space
                 THEN Res("skipped", "insufficient_backup_space", <<>>, FALSE, TRUE)
             ELSE write_step(c, e, is_retry, ffT, director, e.itT, e.cover)

process_one_file_env(c, rd, path, is_retry, e) ==
    IF e.stat = "missing" THEN Res("failed", "missing_file", <<>>, FALSE, TRUE)
    \* only FileNotFoundError is caught around path.stat()
    ELSE IF e.stat = "oserror" THEN Res("raised", "OSError", <<>>, FALSE, FALSE)
    ELSE IF is_extras_title(path) THEN extras_path(c, rd, e)
    ELSE IF c.restore_backup # "none" THEN restore_path(c, e)
    ELSE normal_path(c, rd, e, is_retry)

\* every way one call of process_one_file can go
process_one_file(c, rd, path, is_retry) ==
    {process_one_file_env(c, rd, path, is_retry, e) : e \in Envs}

---------------------------------------------------------------------------
(* core/run.py: run *)

\* no library function is called apart from a run
NoCall == [op |-> "none", args |-> <<>>, out |-> <<>>, done |-> FALSE]

Init ==
    /\ \/ cfg \in RunCfgs /\ dirs = NoDirs
       \/ cfg \in StartupCfgs /\ dirs = NoDirs
       \/ cfg \in RerunSelectCfgs /\ dirs \in RerunSelectDirs
       \/ cfg \in RerunRetentionCfgs /\ dirs \in RerunRetentionDirs(cfg.rerun_src)
    /\ CfgOk(cfg)
    /\ pc = "start"
    /\ files = <<>>
    /\ idx = 1
    /\ deferred = <<>>
    /\ ok_count = 0
    /\ skip_count = 0
    /\ fail_count = 0
    /\ exit_code = -1
    /\ run_dirs = [run_backup_dir |-> 0, run_manifest_path |-> 0]
    /\ attempts = <<>>
    /\ records_written = 0
    /\ call = NoCall

\* init_tmdb's error: no credential, unless the run is a restore
tmdb_error(c) == c.restore_backup = "none" /\ ~c.api_key

\* prepare_run_context returns None
prepare_fails(c) ==
    \/ c.exts = {}
    \/ c.mode = "file" /\ suffix(c.scan[1]) \notin c.exts
    \/ tmdb_error(c)

\* run(): ctx = prepare_run_context(options, cfg); None returns 2
PrepareRunContext ==
    /\ pc = "start"
    /\ IF prepare_fails(cfg)
       THEN pc' = "done" /\ exit_code' = 2
       ELSE pc' = "select" /\ exit_code' = exit_code
    /\ UNCHANGED <<call, cfg, dirs, files, idx, deferred, ok_count, skip_count, fail_count,
                   run_dirs, attempts, records_written>>

\* run(): files = select_run_files(options, ctx); an empty list returns 0,
\* an exception of the manifest loader ends the process with a traceback
SelectRunFiles ==
    /\ pc = "select"
    /\ LET sel == select_files(cfg, dirs) IN
       IF sel.raised THEN pc' = "crashed" /\ exit_code' = 1 /\ files' = files
       ELSE IF sel.files = <<>> THEN pc' = "done" /\ exit_code' = 0 /\ files' = files
       ELSE pc' = "setup" /\ exit_code' = exit_code /\ files' = sel.files
    /\ UNCHANGED <<call, cfg, dirs, idx, deferred, ok_count, skip_count, fail_count,
                   run_dirs, attempts, records_written>>

\* setup_run_dirs: [ok, dirs, run_dir]
setup_run_dirs(c, ds) ==
    IF c.restore_backup = "absent" THEN [ok |-> FALSE, dirs |-> ds, run_dir |-> 0]
    ELSE IF c.restore_backup = "present" THEN [ok |-> TRUE, dirs |-> ds, run_dir |-> 0]
    ELSE IF c.test_mode THEN [ok |-> TRUE, dirs |-> ds, run_dir |-> 0]
    ELSE [ok |-> TRUE,
          dirs |-> cleanup_run_dirs(create_run_backup_dir(ds, c.now), c.max_logs),
          run_dir |-> c.now]

\* run(): run_dirs = setup_run_dirs(...); None returns 2
SetupRunDirs ==
    /\ pc = "setup"
    /\ LET s == setup_run_dirs(cfg, dirs) IN
       IF ~s.ok
       THEN pc' = "done" /\ exit_code' = 2 /\ UNCHANGED <<dirs, run_dirs>>
       ELSE /\ pc' = "pass1"
            /\ exit_code' = exit_code
            /\ dirs' = s.dirs
            /\ run_dirs' = [run_backup_dir |-> s.run_dir, run_manifest_path |-> s.run_dir]
    /\ UNCHANGED <<call, cfg, files, idx, deferred, ok_count, skip_count, fail_count,
                   attempts, records_written>>

\* the entry of the history for one call of process_one_file
AttemptEntry(pos, path, is_retry, r) ==
    [pos |-> pos, path |-> path, retry |-> is_retry, status |-> r.status,
     reason |-> r.reason, writers |-> r.writers, busy |-> r.busy]

\* the effects of one call of process_one_file on the manifest:
\* "if run_dirs.run_manifest_path: write_manifest_record(...)"
AttemptEffect(pos, path, is_retry, r) ==
    /\ attempts' = Append(attempts, AttemptEntry(pos, path, is_retry, r))
    /\ IF r.record /\ run_dirs.run_manifest_path # 0
       THEN /\ dirs' = write_manifest_record(dirs, run_dirs.run_manifest_path,
                                             Rec(path, r.status, r.reason))
            /\ records_written' = records_written + 1
       ELSE UNCHANGED <<dirs, records_written>>

\* variant: the skipped branch is missing from the chain
count_pass1_without_skipped(status, field) ==
    IF status = "deferred" THEN 0
    ELSE IF status = "ok" THEN (IF field = "ok" THEN 1 ELSE 0)
    ELSE (IF field = "failed" THEN 1 ELSE 0)

\* the if/elif chain of pass 1 (lines 943-950)
count_pass1(status, field) ==
    IF status = "deferred" THEN 0
    ELSE IF status = "ok" THEN (IF field = "ok" THEN 1 ELSE 0)
    ELSE IF status = "skipped" THEN (IF field = "skipped" THEN 1 ELSE 0)
    ELSE (IF field = "failed" THEN 1 ELSE 0)

\* variant: the final else branch is missing from the chain
count_pass2_without_else(status, field) ==
    IF status = "ok" THEN (IF field = "ok" THEN 1 ELSE 0)
    ELSE IF status = "skipped" THEN (IF field = "skipped" THEN 1 ELSE 0)
    ELSE 0

\* the if/elif chain of pass 2 (lines 956-961)
count_pass2(status, field) ==
    IF status = "ok" THEN (IF field = "ok" THEN 1 ELSE 0)
    ELSE IF status = "skipped" THEN (IF field = "skipped" THEN 1 ELSE 0)
    ELSE (IF field = "failed" THEN 1 ELSE 0)

\* one iteration of the first loop of run_files.  deferred holds the
\* positions of the queued paths in files, in queueing order.
RunFilesPass1 ==
    /\ pc = "pass1"
    /\ \E r \in process_one_file(cfg, run_dirs, files[idx], FALSE) :
        LET path == files[idx]
        IN  /\ AttemptEffect(idx, path, FALSE, r)
            /\ IF r.status = "raised"
               THEN /\ pc' = "crashed"
                    /\ exit_code' = 1
                    /\ UNCHANGED <<idx, deferred, ok_count, skip_count, fail_count>>
               ELSE /\ deferred' = IF r.status = "deferred" THEN Append(deferred, idx)
                                   ELSE deferred
                    /\ ok_count' = ok_count + count_pass1(r.status, "ok")
                    /\ skip_count' = skip_count + count_pass1(r.status, "skipped")
                    /\ fail_count' = fail_count + count_pass1(r.status, "failed")
                    /\ idx' = IF idx < Len(files) THEN idx + 1 ELSE 1
                    /\ pc' = IF idx < Len(files) THEN "pass1"
                             ELSE IF deferred' # <<>> THEN "pass2" ELSE "final"
                    /\ exit_code' = exit_code
    /\ UNCHANGED <<call, cfg, files, run_dirs>>

\* one iteration of the retry loop of run_files
RunFilesPass2 ==
    /\ pc = "pass2"
    /\ \E r \in process_one_file(cfg, run_dirs, files[deferred[idx]], TRUE) :
        LET pos == deferred[idx]
            path == files[pos]
        IN  /\ AttemptEffect(pos, path, TRUE, r)
            /\ IF r.status = "raised"
               THEN /\ pc' = "crashed"
                    /\ exit_code' = 1
                    /\ UNCHANGED <<idx, ok_count, skip_count, fail_count>>
               ELSE /\ ok_count' = ok_count + count_pass2(r.status, "ok")
                    /\ skip_count' = skip_count + count_pass2(r.status, "skipped")
                    /\ fail_count' = fail_count + count_pass2(r.status, "failed")
                    /\ idx' = IF idx < Len(deferred) THEN idx + 1 ELSE 1
                    /\ pc' = IF idx < Len(deferred) THEN "pass2" ELSE "final"
                    /\ exit_code' = exit_code
    /\ UNCHANGED <<call, cfg, files, deferred, run_dirs>>

\* variant: the failure count is not consulted
finalize_run_always_zero(fails) == 0

\* finalize_run's return value
finalize_run(fails) == IF fails = 0 THEN 0 ELSE 1

\* run(): write_log_summary, return finalize_run(summary, ctx)
FinalizeRun ==
    /\ pc = "final"
    /\ exit_code' = finalize_run(fail_count)
    /\ pc' = "done"
    /\ UNCHANGED <<call, cfg, dirs, files, idx, deferred, ok_count, skip_count, fail_count,
                   run_dirs, attempts, records_written>>

Next ==
    \/ PrepareRunContext
    \/ SelectRunFiles
    \/ SetupRunDirs
    \/ RunFilesPass1
    \/ RunFilesPass2
    \/ FinalizeRun

Spec == Init /\ [][Next]_vars

---------------------------------------------------------------------------
(* Observations on the history *)

\* the indices of the calls of process_one_file for the file listed at pos
AttemptsOf(pos) == {i \in 1..Len(attempts) : attempts[i].pos = pos}

FirstPass == {i \in 1..Len(attempts) : ~attempts[i].retry}

Retries == {i \in 1..Len(attempts) : attempts[i].retry}

\* the attempt returned one of the statuses a manifest record can carry
Terminal(a) == a.status \in {"ok", "skipped", "failed"}

\* the calls of ffmpeg_write_metadata for the file listed at pos
FfmpegCalls(pos) ==
    {<<i, k>> \in (1..Len(attempts)) \X (1..3) :
        /\ attempts[i].pos = pos
        /\ k <= Len(attempts[i].writers)
        /\ attempts[i].writers[k][1] = "ffmpeg"}

\* the attempt invoked ffmpeg_write_metadata, the writer that can signal
\* busy, and every writer it invoked returned success
WritersSucceeded(a) ==
    /\ \E k \in 1..Len(a.writers) : a.writers[k][1] = "ffmpeg"
    /\ \A k \in 1..Len(a.writers) : a.writers[k][2] = "ok"

\* the run is over
Ended == pc \in {"done", "crashed"}

---------------------------------------------------------------------------
(* Claims *)

\* C1: every file whose writer reports resource-busy in pass 1 is deferred,
\* not failed; pass 2 re-attempts exactly the deferred files, each once, in
\* listing order, after every file of pass 1 was attempted; no file is
\* attempted a third time and no other file is re-attempted.
C1_DeferredRetriedOnce ==
    /\ \A i \in FirstPass : attempts[i].busy => attempts[i].status = "deferred"
    /\ \A i \in Retries :
        /\ Cardinality(FirstPass) = Len(files)
        /\ \E j \in FirstPass : /\ j < i
                                /\ attempts[j].pos = attempts[i].pos
                                /\ attempts[j].status = "deferred"
        /\ \A j \in Retries : j < i => attempts[j].pos < attempts[i].pos
    /\ \A pos \in 1..Len(files) : Cardinality(AttemptsOf(pos)) <= 2
    /\ pc \in {"final", "done"} =>
        \A j \in FirstPass : attempts[j].status = "deferred" =>
            \E i \in Retries : attempts[i].pos = attempts[j].pos

\* C2: a file whose writer is busy on attempt 1 gets a second attempt; if
\* the writers succeed on attempt 2 the file ends OK after exactly 2
\* invocations of the writer; if the writer is busy again the file ends
\* FAILED with reason resource_busy and is counted as failed exactly once.
C2_RetryOutcome ==
    Ended =>
        /\ \A j \in FirstPass : attempts[j].busy =>
              \E i \in Retries :
                /\ attempts[i].pos = attempts[j].pos
                /\ WritersSucceeded(attempts[i]) =>
                      /\ attempts[i].status = "ok"
                      /\ Cardinality(FfmpegCalls(attempts[i].pos)) = 2
                /\ attempts[i].busy =>
                      /\ attempts[i].status = "failed"
                      /\ attempts[i].reason = "resource_busy"
        /\ pc = "done" /\ attempts # <<>> =>
              fail_count = Cardinality({i \in 1..Len(attempts) : attempts[i].status = "failed"})

\* C3: no exception raised while one file is processed leaves
\* process_one_file, on any path; the file is recorded as FAILED (or
\* deferred) and every remaining file of the batch is still processed.
C3_NoExceptionEscapes ==
    /\ \A i \in 1..Len(attempts) : attempts[i].status # "raised"
    /\ Ended /\ attempts # <<>> =>
          \A pos \in 1..Len(files) : AttemptsOf(pos) # {}

---------------------------------------------------------------------------
(* Observations on the manifests *)

\* the manifest of the run in progress
RunManifest == dirs[run_dirs.run_manifest_path].manifest

\* the record lines of m whose status is failed and whose path is not empty
FailedRecords(m) ==
    SelectSeq(m, LAMBDA l : l.kind = "rec" /\ l.status = "failed" /\ l.path # "")

FailedPaths(m) == [i \in 1..Len(FailedRecords(m)) |-> FailedRecords(m)[i].path]

\* the paths of s whose suffix is among --only-ext, all of s without --only-ext
WithinOnlyExts(s, only_exts) ==
    IF only_exts = {} THEN s ELSE SelectSeq(s, LAMBDA q : suffix(q) \in only_exts)

\* rerun selection has produced its list: a non-empty one before
\* setup_run_dirs, or an empty one that ended the run with code 0
RerunListed ==
    /\ cfg.mode = "rerun"
    /\ \/ pc = "setup"
       \/ pc = "done" /\ exit_code = 0 /\ attempts = <<>>

SomeFailed == \E i \in 1..Len(attempts) : attempts[i].status = "failed"

\* the configuration errors of section "fatal configuration"
FatalConfig(c) ==
    \/ c.exts = {}
    \/ c.mode = "file" /\ suffix(c.scan[1]) \notin c.exts
    \/ c.restore_backup = "none" /\ ~c.api_key
    \/ c.restore_backup = "absent"

\* C4: every manifest write appends one record after the existing ones and
\* no step of a run, of its retry pass or of a later rerun modifies,
\* reorders or removes a record already written.
C4_AppendOnly ==
    [][\A n \in DirNames :
          \/ dirs'[n].manifest = dirs[n].manifest
          \/ /\ Len(dirs'[n].manifest) = Len(dirs[n].manifest) + 1
             /\ SubSeq(dirs'[n].manifest, 1, Len(dirs[n].manifest)) = dirs[n].manifest]_vars

\* C4 (amended): every manifest write appends exactly one record to the
\* manifest of the run in progress, after the existing lines, and leaves
\* every other manifest alone; the only step that removes records is the
\* retention cleanup of setup_run_dirs, which removes whole run directories.
C4_AppendOnlyUntilRetention ==
    [][\A n \in DirNames :
          \/ dirs'[n].manifest = dirs[n].manifest
          \/ /\ n = run_dirs.run_manifest_path
             /\ records_written' = records_written + 1
             /\ Len(dirs'[n].manifest) = Len(dirs[n].manifest) + 1
             /\ SubSeq(dirs'[n].manifest, 1, Len(dirs[n].manifest)) = dirs[n].manifest
          \/ /\ pc = "setup"
             /\ dirs'[n] = NoDir]_vars

\* a rerun has appended two records to its own manifest and the manifest it
\* read is still there
C4_Witness ==
    /\ cfg.mode = "rerun"
    /\ run_dirs.run_manifest_path \notin {0, cfg.rerun_src}
    /\ records_written = 2
    /\ Len(RunManifest) = 2
    /\ dirs[cfg.rerun_src].manifest # <<>>

\* C5: in a run that has a manifest, every call of process_one_file that
\* returns appends exactly one record for its file.
C5_OneRecordPerAttempt ==
    [][(run_dirs.run_manifest_path # 0 /\ attempts' # attempts
          /\ attempts'[Len(attempts')].status # "raised") =>
          /\ Len(RunManifest') = Len(RunManifest) + 1
          /\ RunManifest'[Len(RunManifest')].kind = "rec"
          /\ RunManifest'[Len(RunManifest')].path = attempts'[Len(attempts')].path]_vars

\* C5 (amended): in a run that has a manifest, a call of process_one_file
\* that returns ok, skipped or failed appends exactly one record, carrying
\* its path, status and reason; a first-pass call that is deferred, and a
\* call that an exception leaves, append nothing.
C5_OneRecordPerFinishedAttempt ==
    [][(run_dirs.run_manifest_path # 0 /\ attempts' # attempts) =>
          /\ Len(attempts') = Len(attempts) + 1
          /\ IF Terminal(attempts'[Len(attempts')])
             THEN /\ RunManifest' =
                        Append(RunManifest,
                               Line("rec", attempts'[Len(attempts')].path,
                                    attempts'[Len(attempts')].status,
                                    attempts'[Len(attempts')].reason))
                  /\ records_written' = records_written + 1
             ELSE /\ dirs' = dirs
                  /\ records_written' = records_written]_vars

\* a deferred first attempt left no record, its retry left one
C5_Witness ==
    /\ run_dirs.run_manifest_path # 0
    /\ \E j \in FirstPass, i \in Retries :
          /\ attempts[j].status = "deferred"
          /\ attempts[i].pos = attempts[j].pos
          /\ Terminal(attempts[i])
    /\ records_written = Len(SelectSeq(attempts, Terminal))
    /\ records_written < Len(attempts)

\* C6: the rerun-failed file list is exactly the paths of the failed
\* records of the manifest, in manifest order.
C6_RerunListIsFailedPaths ==
    RerunListed => files = FailedPaths(dirs[cfg.rerun_src].manifest)

\* C6 (amended): the rerun-failed file list is the paths of the failed
\* records of the manifest, in manifest order, restricted to the suffixes
\* of --only-ext when that option is given.
C6_RerunListIsFilteredFailedPaths ==
    RerunListed =>
        files = WithinOnlyExts(FailedPaths(dirs[cfg.rerun_src].manifest), cfg.only_exts)

\* a manifest with an ok record and a failed record yields the failed path alone
C6_Witness ==
    /\ RerunListed
    /\ pc = "setup"
    /\ \E i, j \in 1..Len(dirs[cfg.rerun_src].manifest) :
          /\ dirs[cfg.rerun_src].manifest[i].kind = "rec"
          /\ dirs[cfg.rerun_src].manifest[i].status = "ok"
          /\ dirs[cfg.rerun_src].manifest[j].kind = "rec"
          /\ dirs[cfg.rerun_src].manifest[j].status = "failed"
          /\ files = <<dirs[cfg.rerun_src].manifest[j].path>>

\* C7: a manifest line that is blank, not JSON, truncated or JSON that is
\* not an object is skipped by load_failed_from_manifest without an error,
\* and the failed paths of the well-formed lines are still returned.
C7_MalformedLinesIgnored ==
    (cfg.mode = "rerun" /\ pc \notin {"start", "select"}) =>
        /\ ~(pc = "crashed" /\ attempts = <<>>)
        /\ RerunListed =>
              files = WithinOnlyExts(FailedPaths(dirs[cfg.rerun_src].manifest), cfg.only_exts)

\* C8: wherever a run stops, its manifest holds only whole records, those
\* of the attempts that returned ok, skipped or failed so far, in processing
\* order, and load_failed_from_manifest derives from them the paths of the
\* failed attempts and nothing else.
C8_ManifestValidAtAnyPoint ==
    run_dirs.run_manifest_path # 0 =>
        LET finished == SelectSeq(attempts, Terminal)
            failed == SelectSeq(attempts, LAMBDA a : a.status = "failed")
            tail == SubSeq(RunManifest, Len(RunManifest) - records_written + 1,
                           Len(RunManifest))
            loaded == load_failed_loop(tail, 1, <<>>)
        IN  /\ records_written <= Len(RunManifest)
            /\ records_written = Len(finished)
            /\ \A k \in 1..Len(tail) :
                  tail[k] = Line("rec", finished[k].path, finished[k].status,
                                 finished[k].reason)
            /\ ~loaded.raised
            /\ loaded.failed = [k \in 1..Len(failed) |-> failed[k].path]

\* the run stops between its two files, the failed attempt on the first
\* one recorded
C8_Witness ==
    /\ run_dirs.run_manifest_path # 0
    /\ pc = "pass1"
    /\ idx = 2
    /\ records_written = 1
    /\ SomeFailed
    /\ RunManifest = <<Line("rec", files[1], "failed", attempts[1].reason)>>

\* C9: a run that returns exits non-zero exactly when a file ended FAILED.
C9_ExitCodeIffFailed ==
    pc = "done" => (exit_code # 0 <=> SomeFailed)

\* C9 (amended): a run with a FAILED file exits non-zero; a run exits
\* non-zero only when a file ended FAILED, when a fatal configuration error
\* stopped it before any file, or when an exception ended it.
C9_ExitCodeNonZeroCauses ==
    Ended =>
        /\ SomeFailed => exit_code # 0
        /\ exit_code # 0 =>
              \/ SomeFailed
              \/ pc = "crashed"
              \/ FatalConfig(cfg) /\ attempts = <<>> /\ exit_code = 2
        /\ (pc = "done" /\ exit_code = 1) => SomeFailed

\* a file deferred in pass 1 succeeded on retry and the run exits 0
C9_Witness ==
    /\ pc = "done"
    /\ exit_code = 0
    /\ \E j \in FirstPass, i \in Retries :
          /\ attempts[j].status = "deferred"
          /\ attempts[i].pos = attempts[j].pos
          /\ attempts[i].status = "ok"

\* C10: a fatal configuration error stops the run before any file:
\* process_one_file is never called, no record is written and the exit
\* code is non-zero.
C10_FatalConfigAborts ==
    FatalConfig(cfg) =>
        /\ attempts = <<>>
        /\ records_written = 0
        /\ pc # "crashed"
        /\ pc = "done" => exit_code # 0

---------------------------------------------------------------------------
(* Skips and restore mode *)

\* the reason codes of the skippable conditions
SkipReasons ==
    {"no_match", "no_tags", "existing_tags", "drm_protected", "insufficient_backup_space"}

CountStatus(st) == Cardinality({i \in 1..Len(attempts) : attempts[i].status = st})

OnExistingFile(a) == a.reason \notin {"missing_file", "OSError"}

\* C12: in restore mode every existing file goes through the restore path
\* only: it ends OK restored or FAILED restore_failed and no writer other
\* than the restore is invoked for it.
C12_RestoreOnly ==
    cfg.restore_backup = "present" =>
        \A i \in 1..Len(attempts) :
            OnExistingFile(attempts[i]) =>
                /\ \/ attempts[i].status = "ok" /\ attempts[i].reason = "restored"
                   \/ attempts[i].status = "failed" /\ attempts[i].reason = "restore_failed"
                /\ \A k \in 1..Len(attempts[i].writers) :
                      attempts[i].writers[k][1] = "restore"

\* C13: the destination file is never edited in place: every writer invoked
\* for a file (container tags, director atom, iTunMOVI atom, mp4tags,
\* restore) stages its changes in a temporary file of the destination's
\* directory and renames it over the original.
C13_NeverEditedInPlace ==
    (~cfg.test_mode /\ ~cfg.dry_run) =>
        \A i \in 1..Len(attempts) :
            \A k \in 1..Len(attempts[i].writers) :
                edit_method(attempts[i].writers[k][1]) = "tmp_rename"

---------------------------------------------------------------------------
(* Calls of library functions outside a run *)

\* no run is in progress
RunIdle ==
    /\ cfg = DefaultCfg
    /\ dirs = NoDirs
    /\ pc = "idle"
    /\ files = <<>>
    /\ idx = 1
    /\ deferred = <<>>
    /\ ok_count = 0
    /\ skip_count = 0
    /\ fail_count = 0
    /\ exit_code = -1
    /\ run_dirs = [run_backup_dir |-> 0, run_manifest_path |-> 0]
    /\ attempts = <<>>
    /\ records_written = 0

\* a call about to be made
Call(op, args) == [op |-> op, args |-> args, out |-> <<>>, done |-> FALSE]

\* the call returns out
Return(out) == call' = [call EXCEPT !.out = out, !.done = TRUE]

\* None is the empty sequence, a value v is <<v>>
Some(v) == <<v>>

None == <<>>

---------------------------------------------------------------------------
(* tmdb/client.py *)

\* Scores are title_similarity * 10.0, counted here in tenths: 2.0 is 20.
\* TmdbConfig defaults: min_score 2.0, fallback_min_score 1.5, fallback_min_votes 10
TmdbThresholds == [min_score |-> 20, fallback_min_score |-> 15, fallback_min_votes |-> 10]

\* best_score = -1.0 before the loop
InitialBestScore == -10

\* score_diff >= 0.5
ScoreDiffThreshold == 5

\* most results one search request returns
MaxResults == 2

\* one entry of data["results"]: the score of its title against the query,
\* its vote_count and popularity; its identity is its position
SearchResults ==
    {[score |-> s, votes |-> v, popularity |-> 1] : s \in {10, 15, 20}, v \in {5, 10}}

\* one candidate title with what the search request for it returns; an
\* empty title is not searched
Queries ==
    {[title |-> "", results |-> <<>>]}
        \cup {[title |-> "t", results |-> r] : r \in SeqsUpTo(SearchResults, MaxResults)}

\* build_search_candidates yields a few titles
TitleLists == {<<>>} \cup {<<q>> : q \in Queries} \cup (Queries \X Queries)

\* max(results, key=score): the first result of the highest score
max_by_score(results) ==
    CHOOSE k \in 1..Len(results) :
        /\ \A j \in 1..Len(results) : results[j].score <= results[k].score
        /\ \A j \in 1..(k - 1) : results[j].score < results[k].score

RECURSIVE best_match_loop(_, _, _)
\* the loop over titles from position i
best_match_loop(titles, i, best) ==
    IF i > Len(titles) THEN best
    ELSE IF titles[i].title = "" THEN best_match_loop(titles, i + 1, best)
    ELSE IF titles[i].results = <<>> THEN best_match_loop(titles, i + 1, best)
    ELSE LET k == max_by_score(titles[i].results)
             candidate_best == titles[i].results[k]
         IN  IF candidate_best.score > best.score
             THEN best_match_loop(titles, i + 1,
                      [found |-> TRUE, result |-> <<i, k>>, score |-> candidate_best.score,
                       votes |-> candidate_best.votes,
                       popularity |-> candidate_best.popularity])
             ELSE best_match_loop(titles, i + 1, best)

\* variant: the fallback clause is missing
is_confident_without_fallback(best, th) == best.score >= th.min_score

\* best_score >= min_score or (best_score >= fallback_min_score and
\* best_votes >= fallback_min_votes)
is_confident(best, th) ==
    \/ best.score >= th.min_score
    \/ best.score >= th.fallback_min_score /\ best.votes >= th.fallback_min_votes

\* _best_match_with_candidates: a MatchCandidate or None
best_match_with_candidates(titles, th, media_type) ==
    LET best == best_match_loop(titles, 1,
                    [found |-> FALSE, result |-> <<0, 0>>, score |-> InitialBestScore,
                     votes |-> 0, popularity |-> 0])
    IN  IF ~best.found THEN None
        ELSE IF is_confident(best, th)
            THEN Some([result |-> best.result, score |-> best.score, votes |-> best.votes,
                       popularity |-> best.popularity, media_type |-> media_type])
        ELSE None

\* the candidates the two searches can hand to choose_preferred_match
MatchCandidates(media_type) ==
    {[result |-> <<1, 1>>, score |-> s, votes |-> v, popularity |-> p,
      media_type |-> media_type] : s \in {20, 24, 25}, v \in {5, 10}, p \in {1, 2}}

Optional(S) == {None} \cup {Some(x) : x \in S}

\* variant: the closer scores are not told apart from the distant ones
choose_preferred_match_by_score(movie_candidate, tv_candidate) ==
    IF movie_candidate # None /\ tv_candidate = None THEN movie_candidate
    ELSE IF tv_candidate # None /\ movie_candidate = None THEN tv_candidate
    ELSE IF movie_candidate = None \/ tv_candidate = None THEN None
    ELSE IF movie_candidate[1].score > tv_candidate[1].score THEN movie_candidate
    ELSE tv_candidate

choose_preferred_match(movie_candidate, tv_candidate) ==
    IF movie_candidate # None /\ tv_candidate = None THEN movie_candidate
    ELSE IF tv_candidate # None /\ movie_candidate = None THEN tv_candidate
    ELSE IF movie_candidate = None \/ tv_candidate = None THEN None
    ELSE LET m == movie_candidate[1]
             t == tv_candidate[1]
             score_diff == IF m.score >= t.score THEN m.score - t.score
                           ELSE t.score - m.score
         IN  IF score_diff >= ScoreDiffThreshold
                 THEN (IF m.score > t.score THEN movie_candidate ELSE tv_candidate)
             ELSE IF t.popularity # m.popularity
                 THEN (IF t.popularity > m.popularity THEN tv_candidate ELSE movie_candidate)
             ELSE IF t.votes # m.votes
                 THEN (IF t.votes > m.votes THEN tv_candidate ELSE movie_candidate)
             ELSE movie_candidate

ResolverInit ==
    /\ RunIdle
    /\ \/ call \in {Call("best_match", [titles |-> ts]) : ts \in TitleLists}
       \/ call \in {Call("choose", [movie |-> m, tv |-> t]) :
                        m \in Optional(MatchCandidates("movie")),
                        t \in Optional(MatchCandidates("tv"))}

\* tmdb_search_best_match_with_candidates_scored(titles, ...)
BestMatch ==
    /\ call.op = "best_match"
    /\ ~call.done
    /\ Return(best_match_with_candidates(call.args.titles, TmdbThresholds, "movie"))
    /\ UNCHANGED run_vars

ChoosePreferredMatch ==
    /\ call.op = "choose"
    /\ ~call.done
    /\ Return(choose_preferred_match(call.args.movie, call.args.tv))
    /\ UNCHANGED run_vars

ResolverNext == BestMatch \/ ChoosePreferredMatch

ResolverSpec == ResolverInit /\ [][ResolverNext]_vars

\* the positions <<title, result>> of the results of the searched titles
ResultsOf(titles) ==
    {c \in (1..Len(titles)) \X (1..MaxResults) :
        titles[c[1]].title # "" /\ c[2] <= Len(titles[c[1]].results)}

ResultAt(titles, c) == titles[c[1]].results[c[2]]

Earlier(c, d) == c[1] < d[1] \/ (c[1] = d[1] /\ c[2] < d[2])

\* the earliest result of the highest score
TopResult(titles) ==
    CHOOSE c \in ResultsOf(titles) :
        \A d \in ResultsOf(titles) :
            /\ ResultAt(titles, d).score <= ResultAt(titles, c).score
            /\ Earlier(d, c) => ResultAt(titles, d).score < ResultAt(titles, c).score

\* C14: the resolver keeps, across all non-empty candidate titles, the
\* result of the highest score, the earliest on ties, and returns it if and
\* only if score >= min_score or (score >= fallback_min_score and votes >=
\* fallback_min_votes); otherwise, or without any result, it returns none.
C14_BestMatchAccepted ==
    (call.op = "best_match" /\ call.done) =>
        LET titles == call.args.titles IN
        IF ResultsOf(titles) = {} THEN call.out = None
        ELSE LET top == ResultAt(titles, TopResult(titles))
                 accepted ==
                    \/ top.score >= TmdbThresholds.min_score
                    \/ /\ top.score >= TmdbThresholds.fallback_min_score
                       /\ top.votes >= TmdbThresholds.fallback_min_votes
             IN  IF accepted
                 THEN /\ call.out # None
                      /\ call.out[1].result = TopResult(titles)
                      /\ call.out[1].score = top.score
                      /\ call.out[1].votes = top.votes
                 ELSE call.out = None

\* the first title is empty, two results tie for the highest score, which
\* is below min_score, and the earlier one is returned on its votes
C14_Witness ==
    /\ call.op = "best_match"
    /\ call.done
    /\ Len(call.args.titles) = 2
    /\ call.args.titles[1].title = ""
    /\ Len(call.args.titles[2].results) = 2
    /\ call.args.titles[2].results[1].score = call.args.titles[2].results[2].score
    /\ call.out # None
    /\ call.out[1].result = <<2, 1>>
    /\ call.out[1].score < TmdbThresholds.min_score

\* C15: choose_preferred_match returns the only candidate when one exists,
\* none when neither does; with both, the higher score when the scores
\* differ by 0.5 or more, else the higher popularity, else the more votes,
\* else the movie.  The result is one of the two arguments.
C15_PreferredMatch ==
    (call.op = "choose" /\ call.done) =>
        LET movie == call.args.movie
            tv == call.args.tv
        IN  /\ call.out \in {movie, tv}
            /\ (movie = None /\ tv = None) => call.out = None
            /\ (movie # None /\ tv = None) => call.out = movie
            /\ (movie = None /\ tv # None) => call.out = tv
            /\ (movie # None /\ tv # None) =>
                  LET m == movie[1]
                      t == tv[1]
                  IN  IF m.score - t.score >= ScoreDiffThreshold THEN call.out = movie
                      ELSE IF t.score - m.score >= ScoreDiffThreshold THEN call.out = tv
                      ELSE IF m.popularity > t.popularity THEN call.out = movie
                      ELSE IF t.popularity > m.popularity THEN call.out = tv
                      ELSE IF m.votes > t.votes THEN call.out = movie
                      ELSE IF t.votes > m.votes THEN call.out = tv
                      ELSE call.out = movie

\* the series scores 0.4 higher but the movie is more popular and is chosen
C15_Witness ==
    /\ call.op = "choose"
    /\ call.done
    /\ call.args.movie # None
    /\ call.args.tv # None
    /\ call.args.tv[1].score = call.args.movie[1].score + 4
    /\ call.args.movie[1].popularity > call.args.tv[1].popularity
    /\ call.out = call.args.movie

----------------------------------------------------------------------------
(* core/mapping_engine.py: payload values *)

\* A payload value is a record [t, s, l]: t is the Python type, s the text of
\* a str (or the key of a dict entry), l the items of a list, the entries of a
\* dict, or the one value of a dict entry.  Python's None and JSON null are
\* the same value.
JNull == [t |-> "null", s |-> "", l |-> <<>>]

JStr(x) == [t |-> "str", s |-> x, l |-> <<>>]

JList(xs) == [t |-> "list", s |-> "", l |-> xs]

JDict(kvs) == [t |-> "dict", s |-> "", l |-> kvs]

KV(k, v) == [t |-> "kv", s |-> k, l |-> <<v>>]

\* `key in d`
dict_has(d, k) == \E i \in 1..Len(d.l) : d.l[i].s = k

\* d.get(key): the value under the key, None when the key is absent
dict_get(d, k) ==
    IF dict_has(d, k)
    THEN d.l[CHOOSE i \in 1..Len(d.l) : d.l[i].s = k].l[1]
    ELSE JNull

\* str(value): a str is itself, an int its digits, None is the text "None",
\* a list or a dict is its repr
py_str(v) ==
    CASE v.t \in {"str", "int", "path"} -> v.s
      [] v.t = "null" -> "None"
      [] v.t = "list" -> "[...]"
      [] OTHER -> "{...}"

\* A path is [rooted, parts]: rooted says the text starts with "$.", parts
\* are the texts between the dots outside brackets.  A part is [key, sel]:
\* the text before the bracket and the selector between the brackets.
NoSel == [kind |-> "none", idx |-> 0, field |-> "", target |-> ""]

StarSel == [kind |-> "star", idx |-> 0, field |-> "", target |-> ""]

IndexSel(i) == [kind |-> "index", idx |-> i, field |-> "", target |-> ""]

FilterSel(f, v) == [kind |-> "filter", idx |-> 0, field |-> f, target |-> v]

\* a selector that is neither "*", digits, nor a filter expression
OtherSel == [kind |-> "other", idx |-> 0, field |-> "", target |-> ""]

Part(k, sel) == [key |-> k, sel |-> sel]

JsonPath(parts) == [rooted |-> TRUE, parts |-> parts]

\* [item.get(part) for item in value if isinstance(item, dict) and part in item]
pluck(items, k) ==
    LET having == SelectSeq(items, LAMBDA item : item.t = "dict" /\ dict_has(item, k))
    IN  [i \in 1..Len(having) |-> dict_get(having[i], k)]

\* [item for item in value if isinstance(item, dict) and str(item.get(field)) == target]
filter_items(items, f, v) ==
    SelectSeq(items, LAMBDA item : item.t = "dict" /\ py_str(dict_get(item, f)) = v)

apply_selector(value, sel) ==
    IF value.t # "list" THEN JList(<<>>)
    ELSE CASE sel.kind = "star" -> value
           [] sel.kind = "index" ->
                IF sel.idx < Len(value.l) THEN value.l[sel.idx + 1] ELSE JNull
           [] sel.kind = "filter" -> JList(filter_items(value.l, sel.field, sel.target))
           [] OTHER -> JList(<<>>)

_apply_part(value, part) ==
    IF part.sel.kind = "none"
    THEN CASE value.t = "list" -> JList(pluck(value.l, part.key))
           [] value.t = "dict" -> dict_get(value, part.key)
           [] OTHER -> JNull
    ELSE IF part.key = "" THEN JNull
    ELSE IF value.t # "dict" THEN JNull
    ELSE apply_selector(dict_get(value, part.key), part.sel)

RECURSIVE apply_parts(_, _)
apply_parts(current, parts) ==
    IF parts = <<>> THEN current
    ELSE LET c == _apply_part(current, Head(parts))
         IN  IF c = JNull THEN JNull ELSE apply_parts(c, Tail(parts))

extract_jsonpath(payload, jsonpath) ==
    IF ~jsonpath.rooted THEN JNull ELSE apply_parts(payload, jsonpath.parts)

----------------------------------------------------------------------------
(* core/providers/tmdb/adapter.py and core/mapping_engine.py: tagging plans *)

\* An endpoint is the sequence of its path segments: "/movie/{id}/credits"
\* is <<"movie", "{id}", "credits">>; the empty text is <<>>.
base_endpoint == <<"movie", "{id}">>

CreditsEndpoint == <<"movie", "{id}", "credits">>

EpisodeEndpoint == <<"tv", "{id}", "season", "{s}", "episode", "{e}">>

\* sorted(endpoints) over the endpoints the plans name
EndpointOrder == <<CreditsEndpoint, EpisodeEndpoint>>

\* str(n) of a small integer
IntText(n) == <<"0", "1", "2", "3", "4", "5", "6", "7", "8", "9">>[n + 1]

\* text.strip() on the texts of the payloads
strip(s) ==
    CASE s = " " -> ""
      [] s = " Heat " -> "Heat"
      [] OTHER -> s

JInt(n) == [t |-> "int", s |-> IntText(n), l |-> <<>>]

JPath(p) == [t |-> "path", s |-> p, l |-> <<>>]

\* an exception leaving the call
Raised(name) == [t |-> "raise", s |-> name, l |-> <<>>]

\* the details of the matched title, fetched before the plan is applied
Details ==
    JDict(<< KV("title", JStr("Heat")),
             KV("tagline", JStr(" ")),
             KV("overview", JStr("")),
             KV("poster_path", JStr("/p.jpg")),
             KV("genres", JList(<< JDict(<<KV("name", JStr("Action"))>>),
                                   JDict(<<KV("name", JStr("Drama"))>>) >>)) >>)

\* what the catalog answers for a resolved endpoint; an unknown path is an
\* HTTP error
tmdb_request(resolved) ==
    CASE resolved = <<"movie", "7", "credits">> ->
            JDict(<< KV("crew", JList(<< JDict(<<KV("job", JStr("Writer")), KV("name", JStr("Roth"))>>),
                                         JDict(<<KV("job", JStr("Director")), KV("name", JStr("Mann"))>>) >>)),
                     KV("cast", JList(<< JDict(<<KV("name", JStr("Pacino"))>>) >>)) >>)
      [] resolved = <<"tv", "7", "season", "1", "episode", "2">> ->
            JDict(<< KV("name", JStr("Pilot")) >>)
      [] OTHER -> Raised("HTTPError")

Source(endpoint, parts) == [endpoint |-> endpoint, jsonpath |-> JsonPath(parts)]

Rule(key, writer, sources, transform, max_chars, fallback) ==
    [itunes_key |-> key, writer |-> writer, tmdb_sources |-> sources,
     transform |-> transform, max_chars |-> max_chars, fallback |-> fallback]

Rules ==
    { Rule("title", "either", <<Source(base_endpoint, <<Part("title", NoSel)>>)>>, "", 0, JNull),
      Rule("director", "ffmpeg",
           <<Source(CreditsEndpoint, <<Part("crew", FilterSel("job", "Director")), Part("name", NoSel)>>)>>,
           "first", 0, JNull),
      Rule("description", "mp4tags", <<Source(base_endpoint, <<Part("tagline", NoSel)>>)>>,
           "", 0, JStr("n/a")),
      Rule("comment", "either",
           <<Source(base_endpoint, <<Part("overview", NoSel)>>),
             Source(base_endpoint, <<Part("homepage", NoSel)>>)>>, "", 0, JStr("none")),
      Rule("episode_title", "either", <<Source(EpisodeEndpoint, <<Part("name", NoSel)>>)>>, "", 0, JNull),
      Rule("episode_sort", "either", <<Source(EpisodeEndpoint, <<Part("name", NoSel)>>)>>,
           "", 0, JStr("Episode")),
      Rule("hd_video", "mp4tags", <<>>, "infer_hd_from_probe", 0, JNull),
      Rule("artwork", "ffmpeg", <<Source(base_endpoint, <<Part("poster_path", NoSel)>>)>>,
           "download_tmdb_image_to_file", 0, JNull),
      Rule("genre", "either", <<Source(base_endpoint, <<Part("genres", StarSel), Part("name", NoSel)>>)>>,
           "no_such_transform", 0, JStr("Unknown")),
      Rule("longdesc", "mp4tags", <<Source(base_endpoint, <<Part("title", NoSel)>>)>>,
           "truncate", 0, JNull),
      Rule("sort_name", "mp4tags", <<Source(base_endpoint, <<Part("title", NoSel)>>)>>,
           "truncate", 40, JNull),
      Rule("cast", "ffmpeg", <<Source(CreditsEndpoint, <<Part("cast", StarSel), Part("name", NoSel)>>)>>,
           "", 0, JNull) }

\* plan["rules"]: no rule, one rule, or two
Plans == {<<>>} \cup {<<r>> : r \in Rules} \cup (Rules \X Rules)

\* The MappingContext apply_plan_for_file builds.  tv is the season and
\* episode parsed from the file name, None for a movie or an unparsed name.
PlanCtxs ==
    [content_id : {7},
     session : BOOLEAN,
     tv : {None, Some([season |-> 1, episode |-> 2]), Some([season |-> 0, episode |-> 1])},
     dry_run : BOOLEAN,
     allow_artwork_download : BOOLEAN,
     run_dir : BOOLEAN]

has_segment(endpoint, seg) == \E i \in 1..Len(endpoint) : endpoint[i] = seg

\* endpoint.replace("{id}", ...).replace("{s}", str(ctx.tv_season or "")).replace("{e}", ...)
resolve_endpoint(endpoint, ctx) ==
    [i \in 1..Len(endpoint) |->
        CASE endpoint[i] = "{id}" -> IntText(ctx.content_id)
          [] endpoint[i] = "{s}" ->
                IF ctx.tv = None \/ ctx.tv[1].season = 0 THEN "" ELSE IntText(ctx.tv[1].season)
          [] endpoint[i] = "{e}" ->
                IF ctx.tv = None \/ ctx.tv[1].episode = 0 THEN "" ELSE IntText(ctx.tv[1].episode)
          [] OTHER -> endpoint[i]]

\* the endpoints of all the rules' sources, the base endpoint excepted
plan_endpoints(plan) ==
    UNION {{plan[i].tmdb_sources[j].endpoint : j \in 1..Len(plan[i].tmdb_sources)} :
              i \in 1..Len(plan)} \ {base_endpoint, <<>>}

\* variant: no endpoint is skipped
endpoint_skipped_never(endpoint, ctx) == FALSE

\* the endpoint needs a season or an episode the file name did not give
endpoint_skipped(endpoint, ctx) ==
    \/ has_segment(endpoint, "{s}") /\ ctx.tv = None
    \/ has_segment(endpoint, "{e}") /\ ctx.tv = None

\* failing: the endpoints whose request fails in this call.  The result is
\* the payloads by endpoint and the requests made, in the order made.
fetch_payloads(plan, ctx, base_payload, failing) ==
    IF ~ctx.session
    THEN [payloads |-> [e \in {base_endpoint} |-> base_payload], requests |-> <<>>]
    ELSE LET endpoints == plan_endpoints(plan)
             answer(e) == IF e \in failing THEN Raised("ConnectionError")
                          ELSE tmdb_request(resolve_endpoint(e, ctx))
             requested == SelectSeq(EndpointOrder,
                              LAMBDA e : e \in endpoints /\ ~endpoint_skipped(e, ctx))
         IN  [payloads |->
                 [e \in {base_endpoint} \cup endpoints |->
                     IF e = base_endpoint THEN base_payload
                     ELSE IF endpoint_skipped(e, ctx) THEN JDict(<<>>)
                     ELSE IF answer(e).t = "raise" THEN JDict(<<>>)
                     ELSE answer(e)],
              requests |->
                 [i \in 1..Len(requested) |->
                     [endpoint |-> requested[i],
                      resolved |-> resolve_endpoint(requested[i], ctx),
                      failed |-> answer(requested[i]).t = "raise"]]]

_resolve_values(payloads, sources) ==
    [i \in 1..Len(sources) |->
        extract_jsonpath(IF sources[i].endpoint \in DOMAIN payloads
                         THEN payloads[sources[i].endpoint]
                         ELSE JDict(<<>>),
                         sources[i].jsonpath)]

\* value in (None, "", [], {})
is_empty(value) == value \in {JNull, JStr(""), JList(<<>>), JDict(<<>>)}

_normalize_value(value) ==
    IF value = JNull THEN JNull
    ELSE IF value.t = "list"
    THEN LET kept == SelectSeq(value.l, LAMBDA v : strip(py_str(v)) # "")
             cleaned == [i \in 1..Len(kept) |-> JStr(strip(py_str(kept[i])))]
         IN  IF cleaned = <<>> THEN JNull ELSE JList(cleaned)
    ELSE IF strip(py_str(value)) = "" THEN JNull
    ELSE JStr(strip(py_str(value)))

\* transforms.first on a list or None: the first item with text, trimmed; an
\* item that is neither text nor empty has no strip() and raises
first(items) ==
    IF is_empty(items) THEN JNull
    ELSE LET stops == {i \in 1..Len(items.l) :
                          ~is_empty(items.l[i]) /\
                          ~(items.l[i].t = "str" /\ strip(items.l[i].s) = "")}
         IN  IF stops = {} THEN JNull
             ELSE LET i == CHOOSE k \in stops : \A j \in stops : k <= j
                  IN  IF items.l[i].t = "str" THEN JStr(strip(items.l[i].s))
                      ELSE Raised("AttributeError")

\* transforms.truncate on texts shorter than a positive max_chars
truncate(text, max_chars) ==
    IF text.t # "str" \/ strip(text.s) = "" THEN JNull
    ELSE IF max_chars < 1 THEN Raised("AssertionError")
    ELSE JStr(strip(text.s))

\* art: what the file system and the image host do, "ok", "mkdir_error" or
\* "download_error"
download_artwork(ctx, path, art) ==
    IF ctx.dry_run THEN JNull
    ELSE IF ~ctx.allow_artwork_download THEN JNull
    ELSE IF ~ctx.run_dir THEN JNull
    ELSE IF art = "mkdir_error" THEN Raised("OSError")
    ELSE IF art = "download_error" THEN JNull
    ELSE JPath("artwork/7.jpg")

choose_and_download_artwork(ctx, values, art) ==
    LET found == {i \in 1..Len(values) :
                     \/ values[i].t = "str" /\ values[i].s # ""
                     \/ values[i].t = "list" /\
                            \E j \in 1..Len(values[i].l) : ~is_empty(values[i].l[j])}
    IN  IF ctx.dry_run \/ ~ctx.allow_artwork_download \/ ~ctx.run_dir THEN JNull
        ELSE IF found = {} THEN JNull
        ELSE IF art = "mkdir_error" THEN Raised("OSError")
        ELSE IF art = "download_error" THEN JNull
        ELSE JPath("artwork/7.jpg")

\* getattr(transforms, name, None)
transform_func(name, values, rule) ==
    LET arg == IF values = <<>> THEN JNull ELSE values[1]
    IN  CASE name = "first" -> Some(first(arg))
          [] name = "truncate" -> Some(truncate(arg, rule.max_chars))
          [] OTHER -> None

\* The MediaInspector of the run has no get_video_dimensions, so the probe
\* for HD raises AttributeError whenever an inspector is given, and the run
\* always gives one.
_apply_transform(name, values, rule, ctx, art) ==
    IF name = ""
    THEN LET full == {i \in 1..Len(values) : ~is_empty(values[i])}
         IN  IF full = {} THEN JNull
             ELSE values[CHOOSE k \in full : \A j \in full : k <= j]
    ELSE IF name = "infer_hd_from_probe" THEN Raised("AttributeError")
    ELSE IF name = "download_tmdb_image_to_file"
    THEN IF values = <<>> \/ is_empty(values[1]) THEN JNull
         ELSE download_artwork(ctx, values[1], art)
    ELSE IF name = "choose_and_download_artwork"
    THEN choose_and_download_artwork(ctx, values, art)
    ELSE LET func == transform_func(name, values, rule)
         IN  IF func = None THEN JNull
             ELSE IF func[1].t = "raise" THEN JNull
             ELSE func[1]

\* tags[key] = value
dict_set(d, k, v) ==
    IF dict_has(d, k)
    THEN JDict([i \in 1..Len(d.l) |-> IF d.l[i].s = k THEN KV(k, v) ELSE d.l[i]])
    ELSE JDict(Append(d.l, KV(k, v)))

\* variant: no rule is left to the other writer
writer_skipped_never(rule, allowed_writers) == FALSE

\* writer and writer not in allowed_writers and writer != "either"
writer_skipped(rule, allowed_writers) ==
    rule.writer \notin allowed_writers /\ rule.writer # "either"

\* The loop over plan["rules"].  acc is [tags, cover_art_path, raised,
\* evaluated]: evaluated lists the keys of the rules whose transform was
\* applied, raised says an exception left the loop.
RECURSIVE build_tags_loop(_, _, _, _, _, _)
build_tags_loop(rules, payloads, ctx, allowed_writers, art, acc) ==
    IF rules = <<>> THEN acc
    ELSE LET rule == Head(rules)
             values == _resolve_values(payloads, rule.tmdb_sources)
             result == _apply_transform(rule.transform, values, rule, ctx, art)
             final == IF is_empty(result) THEN rule.fallback ELSE result
             normalized == _normalize_value(final)
             seen == [acc EXCEPT !.evaluated = Append(@, rule.itunes_key)]
             next(a) == build_tags_loop(Tail(rules), payloads, ctx, allowed_writers, art, a)
         IN  IF rule.itunes_key = "" THEN next(acc)
             ELSE IF writer_skipped(rule, allowed_writers) THEN next(acc)
             ELSE IF result.t = "raise"
             THEN [seen EXCEPT !.tags = JDict(<<>>), !.cover_art_path = None, !.raised = TRUE]
             ELSE IF is_empty(final) THEN next(seen)
             ELSE IF rule.itunes_key = "artwork"
             THEN next(IF final.t = "path"
                       THEN [seen EXCEPT !.cover_art_path = Some(final.s)]
                       ELSE seen)
             ELSE IF normalized = JNull THEN next(seen)
             ELSE next([seen EXCEPT !.tags = dict_set(@, rule.itunes_key, normalized)])

\* the PlanResult, with the requests fetch_payloads made
build_tags_from_plan(plan, ctx, base_payload, allowed_writers, failing, art) ==
    LET fetched == fetch_payloads(plan, ctx, base_payload, failing)
        acc == build_tags_loop(plan, fetched.payloads, ctx, allowed_writers, art,
                   [tags |-> JDict(<<>>), cover_art_path |-> None,
                    raised |-> FALSE, evaluated |-> <<>>])
    IN  [tags |-> acc.tags, cover_art_path |-> acc.cover_art_path, raised |-> acc.raised,
         evaluated |-> acc.evaluated, requests |-> fetched.requests]

ArtOutcomes == {"ok", "mkdir_error", "download_error"}

PlanInit ==
    /\ RunIdle
    /\ call \in {Call("plan", [plan |-> p, ctx |-> c]) : p \in Plans, c \in PlanCtxs}

\* process_one_file: apply_plan_for_file with allowed_writers {"ffmpeg", "either"};
\* an exception ends the file
ApplyPlanFfmpeg ==
    /\ call.op = "plan"
    /\ ~call.done
    /\ Len(call.out) = 0
    /\ \E failing \in SUBSET plan_endpoints(call.args.plan), art \in ArtOutcomes :
          LET r == build_tags_from_plan(call.args.plan, call.args.ctx, Details,
                                        {"ffmpeg", "either"}, failing, art)
          IN  call' = [call EXCEPT !.out = <<r>>, !.done = r.raised]
    /\ UNCHANGED run_vars

\* process_one_file: apply_plan_for_file with allowed_writers {"mp4tags", "either"}
ApplyPlanMp4tags ==
    /\ call.op = "plan"
    /\ ~call.done
    /\ Len(call.out) = 1
    /\ \E failing \in SUBSET plan_endpoints(call.args.plan), art \in ArtOutcomes :
          LET r == build_tags_from_plan(call.args.plan, call.args.ctx, Details,
                                        {"mp4tags", "either"}, failing, art)
          IN  call' = [call EXCEPT !.out = Append(@, r), !.done = TRUE]
    /\ UNCHANGED run_vars

PlanNext == ApplyPlanFfmpeg \/ ApplyPlanMp4tags

PlanSpec == PlanInit /\ [][PlanNext]_vars

----------------------------------------------------------------------------
(* Tagging plans: observations and claims *)

\* the results of the passes made so far over the file's plan
PassResults == IF call.op = "plan" THEN call.out ELSE <<>>

\* the catalog requests made for the file, over all its passes
FileRequests ==
    IF Len(PassResults) = 0 THEN <<>>
    ELSE IF Len(PassResults) = 1 THEN PassResults[1].requests
    ELSE PassResults[1].requests \o PassResults[2].requests

RequestCount(e) ==
    Cardinality({i \in 1..Len(FileRequests) : FileRequests[i].endpoint = e})

\* C16: once the file's two writer passes are done, every sub-resource
\* endpoint named by the plan's rules has been requested from the catalog at
\* most once for the file.
C16_FetchedOncePerFile ==
    (call.op = "plan" /\ call.done) =>
        \A e \in plan_endpoints(call.args.plan) : RequestCount(e) <= 1

----------------------------------------------------------------------------
(* extract_jsonpath on small payloads *)

\* the elements of the payload's list: crew entries with and without a job
\* or a name, and a bare text
CrewItems ==
    { JDict(<<KV("job", JStr("Director")), KV("name", JStr("Mann"))>>),
      JDict(<<KV("job", JStr("Writer")), KV("name", JStr("Roth"))>>),
      JDict(<<KV("name", JStr("Pacino"))>>),
      JDict(<<KV("job", JStr("Director"))>>),
      JStr("x") }

\* what the payload holds under "crew": a list of up to two items, a text,
\* null, or an object
CrewValues ==
    {JList(<<>>)} \cup {JList(<<a>>) : a \in CrewItems}
        \cup {JList(<<a, b>>) : a \in CrewItems, b \in CrewItems}
        \cup {JStr("Heat"), JNull, JDict(<<KV("name", JStr("Mann"))>>)}

JsonPayloads == {JDict(<<KV("crew", v)>>) : v \in CrewValues}

Selectors ==
    {NoSel, StarSel, IndexSel(0), IndexSel(1), IndexSel(2),
     FilterSel("job", "Director"), FilterSel("job", "None"), OtherSel}

\* "$.key", "$.key[...]", "$.key[...].name", "$.key[...].name[0]", and a
\* path that does not start with "$."
JsonPaths ==
    LET heads == {Part(k, sel) : k \in {"crew", "cast"}, sel \in Selectors}
        tails == {<<>>, <<Part("name", NoSel)>>, <<Part("name", IndexSel(0))>>}
    IN  {JsonPath(<<h>> \o t) : h \in heads, t \in tails}
            \cup {[rooted |-> FALSE, parts |-> <<Part("crew", NoSel)>>]}

JsonPathInit ==
    /\ RunIdle
    /\ call \in {Call("extract", [payload |-> p, jsonpath |-> j]) :
                    p \in JsonPayloads, j \in JsonPaths}

ExtractJsonPath ==
    /\ call.op = "extract"
    /\ ~call.done
    /\ Return(extract_jsonpath(call.args.payload, call.args.jsonpath))
    /\ UNCHANGED run_vars

JsonPathNext == ExtractJsonPath

JsonPathSpec == JsonPathInit /\ [][JsonPathNext]_vars

\* the extraction has returned
Extracted == call.op = "extract" /\ call.done

\* the value the payload holds under the key of the path's first segment
FirstTarget == dict_get(call.args.payload, call.args.jsonpath.parts[1].key)

\* C17: when the first segment of the path is a list operator ([index], [*],
\* a filter) on a key whose value is not a list (a text, null, an object, or
\* no value at all), extract_jsonpath returns none, never an empty list.
C17_ListOperatorOnNonList ==
    (/\ Extracted
     /\ call.args.jsonpath.rooted
     /\ call.args.jsonpath.parts[1].sel.kind # "none"
     /\ FirstTarget.t # "list") => call.out = JNull

\* the payload's "crew" is a list and the path is "$.crew[...].name"
CrewNamePath ==
    /\ Extracted
    /\ call.args.jsonpath.rooted
    /\ call.args.jsonpath.parts[1].key = "crew"
    /\ FirstTarget.t = "list"
    /\ Tail(call.args.jsonpath.parts) = <<Part("name", NoSel)>>

\* the names of the objects of the sequence that have one, in order
NamesOf(items) ==
    LET named == SelectSeq(items, LAMBDA e : e.t = "dict" /\ \E i \in 1..Len(e.l) : e.l[i].s = "name")
    IN  [i \in 1..Len(named) |-> dict_get(named[i], "name")]

\* the objects of the sequence whose field f is the text v, in order
ItemsWhere(items, f, v) ==
    SelectSeq(items, LAMBDA e : e.t = "dict" /\ \E i \in 1..Len(e.l) : e.l[i] = KV(f, JStr(v)))

\* C18: on a payload whose "crew" is a list, "$.crew[*].name" returns the
\* names of all the elements in list order, "$.crew[?(@.f=='v')].name" the
\* names of exactly the elements whose f is v, in list order, and
\* "$.crew[i].name" the name of the i-th element.
C18_WildcardFilterIndex ==
    CrewNamePath =>
        LET sel == call.args.jsonpath.parts[1].sel
            items == FirstTarget.l
        IN  /\ sel.kind = "star" => call.out = JList(NamesOf(items))
            /\ sel.kind = "filter" =>
                  call.out = JList(NamesOf(ItemsWhere(items, sel.field, sel.target)))
            /\ (sel.kind = "index" /\ sel.idx < Len(items) /\ items[sel.idx + 1].t = "dict") =>
                  call.out = dict_get(items[sel.idx + 1], "name")

\* the same restricted to filters whose value is not the text "None": this
\* part holds
CrewNamesExceptNone ==
    (CrewNamePath /\ call.args.jsonpath.parts[1].sel.target # "None") => C18_WildcardFilterIndex

----------------------------------------------------------------------------
(* Tagging plans: rule results *)

\* rule i of the plan was evaluated in pass p: its transform was applied
EvaluatedIn(p, i) ==
    \E k \in 1..Len(PassResults[p].evaluated) :
        PassResults[p].evaluated[k] = call.args.plan[i].itunes_key

\* C19: in every pass that returned a result, a rule that was evaluated
\* and has a non-empty literal fallback has its key in the tags: the key is
\* absent only if the rule's result and its fallback are both empty.
C19_KeyAbsentOnlyIfEmpty ==
    \A p \in 1..Len(PassResults) :
        ~PassResults[p].raised =>
            \A i \in 1..Len(call.args.plan) :
                (EvaluatedIn(p, i) /\ call.args.plan[i].fallback \notin {JNull, JStr("")}) =>
                    \E k \in 1..Len(PassResults[p].tags.l) :
                        PassResults[p].tags.l[k].s = call.args.plan[i].itunes_key

\* C20: no pass over the plan raises: whatever a rule's transform does, the
\* pass returns a result and every rule its writer set allows is evaluated.
C20_NoRuleAbortsTheFile ==
    \A p \in 1..Len(PassResults) :
        /\ ~PassResults[p].raised
        /\ \A i \in 1..Len(call.args.plan) :
              (/\ call.args.plan[i].itunes_key # ""
               /\ call.args.plan[i].writer \in
                      (IF p = 1 THEN {"ffmpeg", "either"} ELSE {"mp4tags", "either"})) =>
                  EvaluatedIn(p, i)

----------------------------------------------------------------------------
(* Tagging plans: writers *)

\* the allowed_writers of pass p
AllowedWriters(p) == IF p = 1 THEN {"ffmpeg", "either"} ELSE {"mp4tags", "either"}

\* the keys of the tags pass p returned
TagKeys(p) == {PassResults[p].tags.l[k].s : k \in 1..Len(PassResults[p].tags.l)}

\* the keys of the plan's rules whose writer is one of ws
KeysOfWriters(ws) ==
    {call.args.plan[i].itunes_key :
        i \in {j \in 1..Len(call.args.plan) : call.args.plan[j].writer \in ws}}

\* C21: the tags and the artwork a pass returns come from rules whose writer
\* is in the pass's allowed set or is "either": a key that only rules of the
\* other writer produce is not in the pass's tags.
C21_WriterPartitioning ==
    \A p \in 1..Len(PassResults) :
        /\ TagKeys(p) \subseteq KeysOfWriters(AllowedWriters(p))
        /\ PassResults[p].cover_art_path # None =>
              "artwork" \in KeysOfWriters(AllowedWriters(p))

\* both passes are done over a plan of one ffmpeg-only and one mp4tags-only
\* rule: each pass returned the tag of its own rule alone
C21_Witness ==
    /\ call.op = "plan"
    /\ Len(PassResults) = 2
    /\ KeysOfWriters({"ffmpeg"}) = {"director"}
    /\ KeysOfWriters({"mp4tags"}) = {"sort_name"}
    /\ TagKeys(1) = {"director"}
    /\ TagKeys(2) = {"sort_name"}

----------------------------------------------------------------------------
(* core/services/write_pipeline.py and core/run.py: tags already in the file *)

\* str(key).lower() on the keys of the tags
lower(k) == IF k = "Genre" THEN "genre" ELSE k

\* a dict of tags is a function from its keys to texts
TagDicts(keys, values) == UNION {[ks -> values] : ks \in SUBSET keys}

has_existing_value(existing_tags, key) ==
    /\ lower(key) \in DOMAIN existing_tags
    /\ strip(existing_tags[lower(key)]) # ""

\* the filtered dict of filter_existing_tags
filter_existing_tags(tags_to_write, existing_tags) ==
    [k \in {key \in DOMAIN tags_to_write : ~has_existing_value(existing_tags, key)} |->
        tags_to_write[k]]

\* process_one_file from the no_tags test to the writers: the status it
\* ends with before any write, or "write" with the tags each writer is given
existing_tags_step(tags_to_write, itunes_tags, existing_tags, override_existing, read_fails) ==
    LET read == IF read_fails THEN <<>> ELSE existing_tags
        kept == IF ~override_existing /\ DOMAIN tags_to_write # {} /\ DOMAIN read # {}
                THEN filter_existing_tags(tags_to_write, read)
                ELSE tags_to_write
    IN  IF DOMAIN tags_to_write = {} /\ DOMAIN itunes_tags = {}
        THEN [status |-> "skipped", reason |-> "no_tags", ffmpeg |-> <<>>, itunes |-> <<>>]
        ELSE IF /\ ~override_existing /\ DOMAIN tags_to_write # {} /\ DOMAIN read # {}
                /\ DOMAIN kept = {} /\ DOMAIN itunes_tags = {}
        THEN [status |-> "skipped", reason |-> "existing_tags", ffmpeg |-> <<>>, itunes |-> <<>>]
        ELSE [status |-> "write", reason |-> "", ffmpeg |-> kept, itunes |-> itunes_tags]

ExistingInit ==
    /\ RunIdle
    /\ call \in {Call("existing", [tags_to_write |-> t, itunes_tags |-> i, existing_tags |-> x,
                                   override_existing |-> o, read_fails |-> f]) :
                    t \in TagDicts({"title", "Genre"}, {"new"}),
                    i \in TagDicts({"description"}, {"new"}),
                    x \in TagDicts({"title", "genre", "description"}, {" ", "Old"}),
                    o \in BOOLEAN, f \in BOOLEAN}

FilterExistingTags ==
    /\ call.op = "existing"
    /\ ~call.done
    /\ Return(existing_tags_step(call.args.tags_to_write, call.args.itunes_tags,
                                 call.args.existing_tags, call.args.override_existing,
                                 call.args.read_fails))
    /\ UNCHANGED run_vars

ExistingNext == FilterExistingTags

ExistingSpec == ExistingInit /\ [][ExistingNext]_vars

\* the file holds a non-blank value under the key, whatever the key's case
PresentInFile(key) ==
    \E k \in DOMAIN call.args.existing_tags :
        /\ k = lower(key)
        /\ call.args.existing_tags[k] \notin {"", " "}

\* C22: without override, no tag whose key has a non-blank value in the file
\* is given to a writer, neither to ffmpeg nor to the iTunes writer; the file
\* is skipped with reason existing_tags when no tag is left, and otherwise
\* the writers get exactly the tags whose key is not in the file.
C22_ExistingTagsFiltered ==
    (call.op = "existing" /\ call.done /\ ~call.args.override_existing) =>
        LET left(tags) == {k \in DOMAIN tags : ~PresentInFile(k)}
            all == DOMAIN call.args.tags_to_write \cup DOMAIN call.args.itunes_tags
        IN  /\ \A k \in DOMAIN call.out.ffmpeg \cup DOMAIN call.out.itunes : ~PresentInFile(k)
            /\ (all # {} /\ left(call.args.tags_to_write) = {} /\ left(call.args.itunes_tags) = {})
                  => (call.out.status = "skipped" /\ call.out.reason = "existing_tags")
            /\ call.out.status = "write" =>
                  /\ DOMAIN call.out.ffmpeg = left(call.args.tags_to_write)
                  /\ DOMAIN call.out.itunes = left(call.args.itunes_tags)

\* the same for the tags given to ffmpeg when the file's tags could be read:
\* this part holds
FfmpegTagsFiltered ==
    (call.op = "existing" /\ call.done /\ ~call.args.override_existing /\ ~call.args.read_fails) =>
        /\ \A k \in DOMAIN call.out.ffmpeg : ~PresentInFile(k)
        /\ call.out.status = "write" =>
              /\ DOMAIN call.out.ffmpeg = {k \in DOMAIN call.args.tags_to_write : ~PresentInFile(k)}
              /\ \A k \in DOMAIN call.out.ffmpeg : call.out.ffmpeg[k] = call.args.tags_to_write[k]
        /\ call.out.reason = "existing_tags" =>
              /\ DOMAIN call.args.tags_to_write # {}
              /\ \A k \in DOMAIN call.args.tags_to_write : PresentInFile(k)

----------------------------------------------------------------------------
(* ffmpeg/writer.py: ffmpeg_write_metadata step by step *)

\* the attempts of replace_with_retries: for attempt in range(3)
ReplaceAttempts == 3

\* what the call is given and what the file system does during it: work is
\* "tags or cover_art_path", stale says a temporary file of an earlier call
\* lies next to the file, unlink_ok and mkstemp_ok say whether deleting and
\* creating files in the file's directory succeed
WriterArgs ==
    [work : BOOLEAN, test_mode : BOOLEAN, dry_run : BOOLEAN,
     stale : BOOLEAN, unlink_ok : BOOLEAN, mkstemp_ok : BOOLEAN]

\* The call's position and the files next to the destination: dest is the
\* media file ("original" or "tagged"), tmp the call's temporary file
\* ("absent", "empty" after mkstemp, "output" after ffmpeg), stale the
\* temporary file of the earlier call, attempts the outcome of each
\* replacement tried ("none" or the errno of its OSError), result "True", "False", "ResourceBusyError", or "OSError" when mkstemp
\* raises
WriterState(pos, dest, tmp, stale, tried, result) ==
    [pc |-> pos, dest |-> dest, tmp |-> tmp, stale |-> stale,
     attempts |-> tried, result |-> result]

\* variant: the temporary file is never deleted
unlink_skipped(a, tmp) == tmp

\* tmp_path.unlink(missing_ok=True): a failure leaves the file
unlink(a, tmp) == IF a.unlink_ok THEN "absent" ELSE tmp

\* variant: every error of the replacement counts as busy
is_busy_error_any(errno) == TRUE

\* getattr(exc, "errno", None) == 16
is_busy_error(errno) == errno = "EBUSY"

WriterInit ==
    /\ RunIdle
    /\ call \in {[op |-> "write", args |-> a,
                  out |-> WriterState("start", "original", "absent", a.stale, <<>>, "none"),
                  done |-> FALSE] : a \in WriterArgs}

\* ends the call with the result and the files as they are left
WriterReturn(s, result) == call' = [call EXCEPT !.out = [s EXCEPT !.pc = "done", !.result = result],
                                                !.done = TRUE]

\* lines 62-163: the early returns, cleanup_stale_tagtmp, mkstemp, dry-run
WriterStart ==
    /\ call.op = "write"
    /\ call.out.pc = "start"
    /\ LET a == call.args
           s == call.out
           cleaned == [s EXCEPT !.stale = IF a.unlink_ok THEN FALSE ELSE s.stale]
           made == [cleaned EXCEPT !.tmp = "empty"]
       IN  IF ~a.work THEN WriterReturn(s, "True")
           ELSE IF a.test_mode THEN WriterReturn(s, "True")
           ELSE IF ~a.mkstemp_ok THEN WriterReturn(cleaned, "OSError")
           ELSE IF a.dry_run THEN WriterReturn([made EXCEPT !.tmp = unlink(a, "empty")], "True")
           ELSE call' = [call EXCEPT !.out = [made EXCEPT !.pc = "run"]]
    /\ UNCHANGED run_vars

\* lines 174-217: ffmpeg runs (again without cover art when that is the
\* error), the empty-output test, the copy of the original to the backup
WriterRunFfmpeg ==
    /\ call.op = "write"
    /\ call.out.pc = "run"
    /\ \E outcome \in {"ok", "failed", "empty", "not_found", "backup_error"} :
          LET a == call.args
              s == call.out
          IN  IF outcome = "ok"
              THEN call' = [call EXCEPT !.out = [s EXCEPT !.pc = "replace", !.tmp = "output"]]
              ELSE IF outcome = "not_found"
              THEN WriterReturn([s EXCEPT !.tmp = unlink(a, "empty")], "False")
              ELSE IF outcome = "empty"
              THEN WriterReturn([s EXCEPT !.tmp = unlink(a, "empty")], "False")
              ELSE WriterReturn([s EXCEPT !.tmp = unlink(a, "output")], "False")
    /\ UNCHANGED run_vars

\* lines 219-247: one attempt of replace_with_retries and what follows it
WriterReplace ==
    /\ call.op = "write"
    /\ call.out.pc = "replace"
    /\ Len(call.out.attempts) < ReplaceAttempts
    /\ \E errno \in {"none", "EBUSY", "EACCES"} :
          LET a == call.args
              s == [call.out EXCEPT !.attempts = Append(@, errno)]
          IN  IF errno = "none"
              THEN WriterReturn([s EXCEPT !.dest = "tagged", !.tmp = "absent"], "True")
              ELSE IF ~is_busy_error(errno)
              THEN WriterReturn([s EXCEPT !.tmp = unlink(a, s.tmp)], "False")
              ELSE IF Len(s.attempts) < ReplaceAttempts
              THEN call' = [call EXCEPT !.out = s]
              ELSE WriterReturn([s EXCEPT !.tmp = unlink(a, s.tmp)], "ResourceBusyError")
    /\ UNCHANGED run_vars

WriterNext == WriterStart \/ WriterRunFfmpeg \/ WriterReplace

WriterSpec == WriterInit /\ [][WriterNext]_vars

\* the call has returned or raised
Written == call.op = "write" /\ call.done

\* C23: when ffmpeg_write_metadata ends in test mode or with dry_run, the
\* media file is the original, no temporary file is left next to it, and no
\* file next to it has been deleted.
C23_NoFileModified ==
    (Written /\ (call.args.test_mode \/ call.args.dry_run)) =>
        /\ call.out.dest = "original"
        /\ call.out.tmp = "absent"
        /\ call.out.stale = call.args.stale

\* the same in test mode alone: this part holds
TestModeTouchesNothing ==
    (Written /\ call.args.test_mode) =>
        /\ call.out.dest = "original"
        /\ call.out.tmp = "absent"
        /\ call.out.stale = call.args.stale

----------------------------------------------------------------------------
(* Run directories *)

\* C24: once setup_run_dirs has returned the run directory of a normal run,
\* that directory exists: the cleanup of older run directories did not
\* remove it.
C24_RunDirSurvivesCleanup ==
    (pc = "pass1" /\ idx = 1 /\ run_dirs.run_backup_dir # 0) =>
        dirs[run_dirs.run_backup_dir].exists

\* C25: the replacement is tried at most three times and is tried again
\* only after a busy failure; ffmpeg_write_metadata raises
\* ResourceBusyError exactly when three attempts have all failed busy, and
\* returns False, never busy, when an attempt failed for another reason.
C25_BoundedBusyRetries ==
    (call.op = "write") =>
        LET tried == call.out.attempts
            n == Len(tried)
        IN  /\ n <= 3
            /\ \A i \in 1..(n - 1) : tried[i] = "EBUSY"
            /\ Written =>
                  /\ call.out.result = "ResourceBusyError" <=>
                        (n = 3 /\ \A i \in 1..n : tried[i] = "EBUSY")
                  /\ (n > 0 /\ tried[n] = "EACCES") => call.out.result = "False"
                  /\ (n > 0 /\ tried[n] = "none") => call.out.result = "True"

\* three attempts failed busy and the call raised ResourceBusyError
C25_Witness ==
    /\ Written
    /\ call.out.attempts = <<"EBUSY", "EBUSY", "EBUSY">>
    /\ call.out.result = "ResourceBusyError"

\* the call returned True or False or raised ResourceBusyError
WriterAnswered == Written /\ call.out.result \in {"True", "False", "ResourceBusyError"}

----------------------------------------------------------------------------
(* Tagging plans: endpoints without a payload *)

\* the endpoint has a season or episode placeholder and the file name gave
\* neither
NeedsMissingTv(e) ==
    /\ \E k \in 1..Len(e) : e[k] \in {"{s}", "{e}"}
    /\ call.args.ctx.tv = None

\* pass p asked the catalog for endpoint e
RequestedIn(p, e) ==
    \E k \in 1..Len(PassResults[p].requests) : PassResults[p].requests[k].endpoint = e

\* pass p asked the catalog for endpoint e and the request failed
FailedIn(p, e) ==
    \E k \in 1..Len(PassResults[p].requests) :
        /\ PassResults[p].requests[k].endpoint = e
        /\ PassResults[p].requests[k].failed

\* every source of rule i reads an endpoint that has no payload in pass p
DependsOnEmpty(p, i) ==
    LET sources == call.args.plan[i].tmdb_sources
    IN  /\ sources # <<>>
        /\ \A j \in 1..Len(sources) :
              NeedsMissingTv(sources[j].endpoint) \/ FailedIn(p, sources[j].endpoint)

\* C26: an endpoint that needs a season or an episode the file does not
\* have is not requested; a rule whose sources all read such an endpoint, or
\* an endpoint whose request failed, is never the rule at which a pass
\* raises, and in a pass that returns its key is absent or carries the
\* rule's fallback.
C26_EmptyPayloadFallsBack ==
    \A p \in 1..Len(PassResults) :
        /\ \A e \in plan_endpoints(call.args.plan) : NeedsMissingTv(e) => ~RequestedIn(p, e)
        /\ \A i \in 1..Len(call.args.plan) :
              (DependsOnEmpty(p, i) /\ EvaluatedIn(p, i)) =>
                  LET r == PassResults[p]
                      key == call.args.plan[i].itunes_key
                  IN  IF r.raised
                      THEN r.evaluated[Len(r.evaluated)] # key
                      ELSE dict_get(r.tags, key) \in
                               {JNull, _normalize_value(call.args.plan[i].fallback)}

\* the episode endpoint was skipped for a file without season and episode
\* and its rule wrote the fallback; the credits request failed and the
\* director rule was dropped
C26_Witness ==
    /\ Len(PassResults) >= 1
    /\ call.args.ctx.tv = None
    /\ Len(call.args.plan) = 2
    /\ call.args.plan[1].itunes_key = "episode_sort"
    /\ call.args.plan[2].itunes_key = "director"
    /\ ~PassResults[1].raised
    /\ PassResults[1].evaluated = <<"episode_sort", "director">>
    /\ FailedIn(1, CreditsEndpoint)
    /\ ~RequestedIn(1, EpisodeEndpoint)
    /\ dict_get(PassResults[1].tags, "episode_sort") = JStr("Episode")
    /\ ~dict_has(PassResults[1].tags, "director")

----------------------------------------------------------------------------
(* Tagging plans: placeholders *)

\* the endpoint with the context's catalog id, season and episode numbers
\* in place of its placeholders
Substituted(endpoint) ==
    [k \in 1..Len(endpoint) |->
        CASE endpoint[k] = "{id}" -> IntText(call.args.ctx.content_id)
          [] endpoint[k] = "{s}" -> IntText(call.args.ctx.tv[1].season)
          [] endpoint[k] = "{e}" -> IntText(call.args.ctx.tv[1].episode)
          [] OTHER -> endpoint[k]]

\* C27: every request made for the file asks for its endpoint with the
\* placeholders replaced by the catalog id, the season number and the
\* episode number parsed from the file name, a season or episode 0 included.
C27_PlaceholdersSubstituted ==
    \A k \in 1..Len(FileRequests) :
        FileRequests[k].resolved = Substituted(FileRequests[k].endpoint)

----------------------------------------------------------------------------
(* run_files: the counters *)

\* run_files has returned its summary
RunFilesReturned == pc = "final"

\* the last call of process_one_file for the file listed at pos
LastAttemptOf(pos) ==
    attempts[CHOOSE i \in AttemptsOf(pos) : \A j \in AttemptsOf(pos) : j <= i]

\* the positions whose last call returned a status of the set
EndedWith(statuses) ==
    {pos \in 1..Len(files) : AttemptsOf(pos) # {} /\ LastAttemptOf(pos).status \in statuses}

\* C28: when run_files returns, the three counters add up to the number of
\* files: every file was tried once, or twice when its first try was
\* deferred, and is counted once, under the status of its last try.
C28_CountersAddUp ==
    RunFilesReturned =>
        /\ ok_count + skip_count + fail_count = Len(files)
        /\ \A pos \in 1..Len(files) :
              /\ Cardinality(AttemptsOf(pos)) \in {1, 2}
              /\ Cardinality(AttemptsOf(pos)) = 2 <=>
                    \E i \in AttemptsOf(pos) : attempts[i].status = "deferred"
        /\ ok_count = Cardinality(EndedWith({"ok"}))
        /\ skip_count = Cardinality(EndedWith({"skipped"}))
        /\ fail_count = Len(files) - Cardinality(EndedWith({"ok", "skipped"}))

\* two files, the first deferred and updated by its retry, the second
\* deferred and failed by its retry
C28_Witness ==
    /\ RunFilesReturned
    /\ Len(files) = 2
    /\ deferred = <<1, 2>>
    /\ Len(attempts) = 4
    /\ attempts[3].retry /\ attempts[3].status = "ok"
    /\ attempts[4].retry /\ attempts[4].status = "failed"
    /\ ok_count = 1 /\ skip_count = 0 /\ fail_count = 1

----------------------------------------------------------------------------
(* process_one_file: the order of the writers *)

\* the place of a writer in the order of process_one_file
WriterRank(name) ==
    CASE name = "ffmpeg" -> 1
      [] name = "director" -> 2
      [] name = "itunes" -> 3
      [] OTHER -> 0

\* C30: in every call of process_one_file the writers run in the order
\* ffmpeg, director, iTunes; a writer that did not report success is the
\* last one invoked; and the call ends ok with reason updated only if every
\* writer it invoked reported success.
C30_WritersInOrder ==
    \A i \in 1..Len(attempts) :
        LET ws == attempts[i].writers
        IN  /\ \A j, k \in 1..Len(ws) : j < k => WriterRank(ws[j][1]) < WriterRank(ws[k][1])
            /\ \A k \in 1..Len(ws) : ws[k][2] # "ok" => k = Len(ws)
            /\ attempts[i].reason = "updated" =>
                  /\ attempts[i].status = "ok"
                  /\ ws # <<>>
                  /\ \A k \in 1..Len(ws) : ws[k][2] = "ok"
            /\ (attempts[i].status = "ok" /\ ws # <<>>) => \A k \in 1..Len(ws) : ws[k][2] = "ok"

\* one call ran the three writers and ended updated; another stopped at a
\* director writer that failed
C30_Witness ==
    /\ \E i \in 1..Len(attempts) :
          /\ attempts[i].writers = <<<<"ffmpeg", "ok">>, <<"director", "ok">>, <<"itunes", "ok">>>>
          /\ attempts[i].status = "ok"
          /\ attempts[i].reason = "updated"
    /\ \E i \in 1..Len(attempts) :
          /\ attempts[i].writers = <<<<"ffmpeg", "ok">>, <<"director", "fail">>>>
          /\ attempts[i].status = "failed"
          /\ attempts[i].reason = "ffmpeg_failed"

====
